---- MODULE Spec2Model ----
(***************************************************************************)
(* Model of the FiveEMA signal engine (src/strategy.py).                   *)
(*                                                                         *)
(* Prices are integers.  With alpha = 2 / (ema_period + 1) = 1/3 an EMA is *)
(* a rational whose denominator is a power of 3; it is stored as the       *)
(* integer ema * Den with Den = 3^MaxEmaExp, and a candle is fed only when *)
(* the updated EMA is still exactly representable over Den.  Optional      *)
(* values (Python None) are sequences of length 0 or 1.  The calendar day  *)
(* string produced by strftime("%Y-%m-%d") of the local time is            *)
(* represented by the local day number, which is in one-to-one             *)
(* correspondence with it.  update_candle never reads the candle's open,   *)
(* which is therefore not an input of the model.  Candles are delivered in *)
(* non-decreasing timestamp order (`now` is the latest timestamp fed).     *)
(*                                                                         *)
(* Every call records in `call` the operation, its arguments and the       *)
(* return point of the handler that was taken (`at`), and in `ret` the     *)
(* value returned; in a step, the unprimed `state` is the state before the *)
(* call recorded in call'.                                                 *)
(*                                                                         *)
(* Spec feeds both timeframes with candles satisfying low <= close <= high *)
(* (what the aggregators produce); SpecShort and SpecLong feed one side    *)
(* with any three prices, as rows read from a file are not validated;      *)
(* SpecSide feeds either side, one per run; SpecFrames is Spec with calls  *)
(* for a timeframe the engine does not know.                               *)
(*                                                                         *)
(* The paper-trading ledger (src/paper_trader.py) is the record `ledger`,  *)
(* one field per attribute of PaperTrader; a dict is a function from the   *)
(* instruments to optional values.  Money is an exact rational in lowest   *)
(* terms; quantities are integers, as the callers pass them.  SpecOrders   *)
(* places buy and sell orders on ledgers constructed with slippage 0 and   *)
(* 1/2; SpecLedger runs all four operations on the ledger with slippage.   *)
(* SpecSlippage is SpecOrders with a negative slippage as well, SpecPnl   *)
(* records trades of several quantities and prices, SpecPair runs two      *)
(* instruments of one engine.  The log and the realized P&L are bounded by *)
(* MaxLogLen, MaxRealizedPnl and MaxPnlTotal.                              *)
(*                                                                         *)
(* The candle builders of the live loop (src/bot.py) are `builder`, one    *)
(* CandleBuilder per timeframe; a bucket's key is the pair (instrument,    *)
(* bucket start) that the code joins into a string.  SpecTicks delivers    *)
(* ticks to one builder.  The event loop of the backtest                   *)
(* (src/backtest.py) is the action event, one 5-minute candle per step     *)
(* with the engine, the instrument's ledger and the table open_trades;     *)
(* SpecLoop runs it.  The loops' messages, counters and monthly reports    *)
(* are not modelled.  SpecOrdered feeds either side of the engine with     *)
(* candles whose low is not above their high, the close being any price.   *)
(* SpecBuild applies build_15m_from_5m to every sequence of at most        *)
(* MaxCandles 5-minute candles of four shapes.  The live loop              *)
(* (src/bot.py) is the action cycle, one pass over the instruments in      *)
(* their configured order, each polled for a price that the feed may fail  *)
(* to give; `ltp` is its table of last prices, and SpecLive runs it.       *)
(***************************************************************************)
EXTENDS Integers, Sequences, FiniteSets, TLC

(* ---------------- bounds of the model ---------------- *)
MaxEmaExp == 0
MaxTradeId == 4
MaxTradesPerDay == 2
MaxLogLen == 2
MaxRealizedPnl == 2
MaxPnlTotal == 4
MaxCandles == 6

(* ---------------- parameters of the engine ---------------- *)
EmaPeriod == 5
RR == 3
SecondsPerDay == 24 * 3600
TzOffset == 5 * 3600 + 1800

Symbols == {"A", "B"}
ActiveSymbols == {"A"}
Prices == {1, 2, 4, 5}
Timestamps == {60000, 70000}
ExitPrices == {0 - 4, 1, 3, 5, 10}
Timeframes == {5, 15}
TickTimes == {60000, 60299, 60300, 60900}
TickPrices == {1, 2, 4}
LoopPrices == {1, 2, 4, 5}
LivePrices == {1, 2}
CandleSeconds == 300
LiveTimes == {60000, 60300}
SymbolOrder == <<"A", "B">>
RiskPerTrade == [n |-> 1, d |-> 2]
CleanAbove == 100
KeepSeconds == 3600
OtherTf == 1
FirstTs == CHOOSE t \in Timestamps : \A u \in Timestamps : t <= u

StartingCash == 8
OrderQtys == {0 - 1, 0, 1, 2}
RefPrices == {2, 4}
EntryPrice == 2
MarkPrice == 4
PnlQtys == {1, 2}
SlippageHalves == {0, 1}
AnySlippageHalves == {0 - 1, 0, 1}

None == <<>>
Some(x) == <<x>>
Val(opt) == opt[1]

RECURSIVE Pow(_, _)
Pow(b, n) == IF n = 0 THEN 1 ELSE b * Pow(b, n - 1)

EmaDiv == EmaPeriod + 1
Den == Pow(EmaDiv \div 2, MaxEmaExp)

VARIABLES state, now, call, ret, ledger, builder, open_trades, ltp

vars == <<state, now, call, ret, ledger, builder, open_trades, ltp>>

(* ---------------- FiveEMA ---------------- *)
_new_symbol_state ==
    [ema_short |-> None, ema_long |-> None,
     signal_short |-> None, signal_long |-> None,
     position |-> None,
     trades_today |-> 0, current_day |-> None, next_trade_id |-> 1]

DayOf(ts) == (ts + TzOffset) \div SecondsPerDay

(* faulty variant: a new day also drops the pending signal candles        *)
_reset_day_clearing(st, ts) ==
    IF st.current_day # Some(DayOf(ts))
    THEN [st EXCEPT !.current_day = Some(DayOf(ts)), !.trades_today = 0,
                    !.signal_short = None, !.signal_long = None]
    ELSE st

_reset_day_if_needed(st, ts) ==
    IF st.current_day # Some(DayOf(ts))
    THEN [st EXCEPT !.current_day = Some(DayOf(ts)), !.trades_today = 0]
    ELSE st

(* faulty variant: one trade too many per day                             *)
_can_trade_inclusive(st) == st.trades_today <= MaxTradesPerDay

_can_trade(st) == st.trades_today < MaxTradesPerDay

(* faulty variant: the next trade id is derived from the daily counter    *)
_record_trade_daily_id(st) ==
    [st EXCEPT !.trades_today = st.trades_today + 1,
               !.next_trade_id = st.trades_today + 2]

_record_trade(st) ==
    [st EXCEPT !.trades_today = st.trades_today + 1,
               !.next_trade_id = st.next_trade_id + 1]

(* faulty variant: the pending long signal candle survives                *)
force_flat_state_short_only(st) ==
    [st EXCEPT !.position = None, !.signal_short = None]

force_flat_state(st) ==
    [st EXCEPT !.position = None, !.signal_short = None, !.signal_long = None]

(* alpha * c + (1 - alpha) * ema with alpha = 2 / (ema_period + 1), in     *)
(* units of 1/Den, times EmaDiv (the division is exact when EmaExact).     *)
EmaTimesDiv(ema, c) ==
    IF ema = None THEN EmaDiv * c * Den
    ELSE 2 * c * Den + (EmaDiv - 2) * Val(ema)

EmaExact(ema, c) == EmaTimesDiv(ema, c) % EmaDiv = 0

EmaNext(ema, c) == Some(EmaTimesDiv(ema, c) \div EmaDiv)

(* faulty variant: a price equal to the EMA counts as above it             *)
AboveOrAt(x, ema) == x * Den >= ema

Above(x, ema) == x * Den > ema
Below(x, ema) == x * Den < ema

Candle(h, l) == [high |-> h, low |-> l]

(* faulty variant: only the high is compared with the EMA                 *)
ShortQualifiesHighOnly(h, l, ema) == Above(h, ema)

ShortQualifies(h, l, ema) == Above(h, ema) /\ Above(l, ema)
ShortTrigger(c, sig) == c < sig.low
(* faulty variants: the low is not compared with the EMA; a close equal   *)
(* to the pending low does not roll                                       *)
ShortRollAnyLow(l, c, sig, ema) == c >= sig.low
ShortRollStrict(l, c, sig, ema) == Above(l, ema) /\ c > sig.low

ShortRoll(l, c, sig, ema) == Above(l, ema) /\ c >= sig.low
ShortInvalid(l, ema) == ~Above(l, ema)

EntrySignal(sym, kind, pos) ==
    [symbol |-> sym, signal |-> kind, entry |-> pos.entry, sl |-> pos.sl,
     tp |-> pos.tp, trade_id |-> pos.trade_id]

Result(st, r, at) == [st |-> st, ret |-> r, at |-> at]

(* faulty variant: the long side's risk formula used for a short          *)
ShortRiskAsLong(sl, entry) == entry - sl

ShortRisk(sl, entry) == sl - entry
(* faulty variant: the target on the wrong side of the entry              *)
ShortTpAbove(entry, risk) == entry + RR * risk

(* faulty variant: the target at the entry                                *)
ShortTpAtEntry(entry, risk) == entry

ShortTp(entry, risk) == entry - RR * risk

ShortEntry(st, sym, c) ==
    LET sig == Val(st.signal_short)
        entry == c
        sl == sig.high
        risk == ShortRisk(sl, entry)
    IN  IF risk <= 0
        THEN Result([st EXCEPT !.signal_short = None], None, "short_degenerate")
        ELSE LET tp == ShortTp(entry, risk)
                 trade_id == st.next_trade_id
                 pos == [side |-> "short", entry |-> entry, sl |-> sl,
                         tp |-> tp, trade_id |-> trade_id]
                 st1 == _record_trade(st)
             IN  Result([st1 EXCEPT !.position = Some(pos),
                                    !.signal_short = None],
                        Some(EntrySignal(sym, "short_entry", pos)),
                        "short_entry")

ShortSide(st, sym, h, l, c) ==
    LET ema_short == Val(st.ema_short) IN
    IF st.signal_short = None
    THEN IF ShortQualifies(h, l, ema_short)
         THEN Result([st EXCEPT !.signal_short = Some(Candle(h, l))], None,
                     "short_signal")
         ELSE Result(st, None, "short_idle")
    ELSE IF ShortTrigger(c, Val(st.signal_short))
         THEN ShortEntry(st, sym, c)
         ELSE IF ShortRoll(l, c, Val(st.signal_short), ema_short)
              THEN Result([st EXCEPT !.signal_short = Some(Candle(h, l))], None,
                          "short_roll")
              ELSE IF ShortInvalid(l, ema_short)
                   THEN Result([st EXCEPT !.signal_short = None], None,
                               "short_invalid")
                   ELSE Result(st, None, "short_keep")

(* faulty variant: only the low is compared with the EMA                  *)
LongQualifiesLowOnly(h, l, ema) == Below(l, ema)

LongQualifies(h, l, ema) == Below(l, ema) /\ Below(h, ema)
(* faulty variant: a close equal to the pending high triggers             *)
LongTriggerInclusive(c, sig) == c >= sig.high

LongTrigger(c, sig) == c > sig.high
LongRoll(h, c, sig, ema) == Below(h, ema) /\ c <= sig.high
LongInvalid(h, ema) == ~Below(h, ema)

(* faulty variant: the short side's risk formula used for a long          *)
LongRiskAsShort(sl, entry) == sl - entry

LongRisk(sl, entry) == entry - sl
LongTp(entry, risk) == entry + RR * risk

LongEntry(st, sym, c) ==
    LET sig == Val(st.signal_long)
        entry == c
        sl == sig.low
        risk == LongRisk(sl, entry)
    IN  IF risk <= 0
        THEN Result([st EXCEPT !.signal_long = None], None, "long_degenerate")
        ELSE LET tp == LongTp(entry, risk)
                 trade_id == st.next_trade_id
                 pos == [side |-> "long", entry |-> entry, sl |-> sl,
                         tp |-> tp, trade_id |-> trade_id]
                 st1 == _record_trade(st)
             IN  Result([st1 EXCEPT !.position = Some(pos),
                                    !.signal_long = None],
                        Some(EntrySignal(sym, "long_entry", pos)),
                        "long_entry")

LongSide(st, sym, h, l, c) ==
    LET ema_long == Val(st.ema_long) IN
    IF st.signal_long = None
    THEN IF LongQualifies(h, l, ema_long)
         THEN Result([st EXCEPT !.signal_long = Some(Candle(h, l))], None,
                     "long_signal")
         ELSE Result(st, None, "long_idle")
    ELSE IF LongTrigger(c, Val(st.signal_long))
         THEN LongEntry(st, sym, c)
         ELSE IF LongRoll(h, c, Val(st.signal_long), ema_long)
              THEN Result([st EXCEPT !.signal_long = Some(Candle(h, l))], None,
                          "long_roll")
              ELSE IF LongInvalid(h, ema_long)
                   THEN Result([st EXCEPT !.signal_long = None], None,
                               "long_invalid")
                   ELSE Result(st, None, "long_keep")

(* faulty variant: a candle of either timeframe updates both EMAs          *)
UpdateEmaBothSides(st, c, tf) ==
    IF tf = 5 \/ tf = 15
    THEN [st EXCEPT !.ema_short = EmaNext(st.ema_short, c),
                    !.ema_long = EmaNext(st.ema_long, c)]
    ELSE st

(* faulty variant: no EMA update while a position is open                 *)
UpdateEmaWhenFlat(st, c, tf) ==
    IF st.position # None THEN st
    ELSE IF tf = 5 THEN [st EXCEPT !.ema_short = EmaNext(st.ema_short, c)]
    ELSE IF tf = 15 THEN [st EXCEPT !.ema_long = EmaNext(st.ema_long, c)]
    ELSE st

UpdateEma(st, c, tf) ==
    IF tf = 5 THEN [st EXCEPT !.ema_short = EmaNext(st.ema_short, c)]
    ELSE IF tf = 15 THEN [st EXCEPT !.ema_long = EmaNext(st.ema_long, c)]
    ELSE st

(* faulty variant: the open position is not looked at                    *)
InPositionIgnored(st) == FALSE

InPosition(st) == st.position # None

UpdateCandle(st0, sym, h, l, c, ts, tf) ==
    LET st1 == _reset_day_if_needed(st0, ts)
        st2 == UpdateEma(st1, c, tf)
    IN  IF tf # 5 /\ tf # 15 THEN Result(st1, None, "other_tf")
        ELSE IF InPosition(st2) THEN Result(st2, None, "in_position")
        ELSE IF ~_can_trade(_reset_day_if_needed(st2, ts))
             THEN Result(st2, None, "quota")
        ELSE IF tf = 5 /\ st2.ema_short # None THEN ShortSide(st2, sym, h, l, c)
        ELSE IF tf = 15 /\ st2.ema_long # None THEN LongSide(st2, sym, h, l, c)
        ELSE Result(st2, None, "no_ema")

ExitSignalRec(sym, kind, price, pos) ==
    [symbol |-> sym, signal |-> kind, exit_price |-> price,
     trade_id |-> pos.trade_id, side |-> pos.side]

(* faulty variant: a price exactly at the stop does not count             *)
ShortStopHitStrict(price, pos) == price > pos.sl

ShortStopHit(price, pos) == price >= pos.sl
ShortTargetHit(price, pos) == price <= pos.tp
LongStopHit(price, pos) == price <= pos.sl
LongTargetHit(price, pos) == price >= pos.tp

ExitSignal(st, sym, price) ==
    IF st.position = None THEN None
    ELSE LET pos == Val(st.position) IN
         IF pos.side = "short"
         THEN IF ShortStopHit(price, pos)
              THEN Some(ExitSignalRec(sym, "exit_sl", pos.sl, pos))
              ELSE IF ShortTargetHit(price, pos)
                   THEN Some(ExitSignalRec(sym, "exit_tp", pos.tp, pos))
                   ELSE None
         ELSE IF LongStopHit(price, pos)
              THEN Some(ExitSignalRec(sym, "exit_sl", pos.sl, pos))
              ELSE IF LongTargetHit(price, pos)
                   THEN Some(ExitSignalRec(sym, "exit_tp", pos.tp, pos))
                   ELSE None

(* ---------------- PaperTrader ---------------- *)
(* Amounts of money are exact rationals [n, d] in lowest terms, d > 0.     *)
Abs(x) == IF x < 0 THEN 0 - x ELSE x

RECURSIVE Gcd(_, _)
Gcd(a, b) == IF b = 0 THEN a ELSE Gcd(b, a % b)

Rat(n, d) ==
    LET sgn == IF d < 0 THEN 0 - 1 ELSE 1
        g == Gcd(Abs(n), Abs(d))
    IN  [n |-> (sgn * n) \div g, d |-> (sgn * d) \div g]

RInt(i) == [n |-> i, d |-> 1]
RAdd(x, y) == Rat(x.n * y.d + y.n * x.d, x.d * y.d)
RSub(x, y) == Rat(x.n * y.d - y.n * x.d, x.d * y.d)
RMul(x, y) == Rat(x.n * y.n, x.d * y.d)
(* faulty variant: floor division                                         *)
RDivFloor(x, y) == RInt((x.n * y.d) \div (x.d * y.n))

RDiv(x, y) == Rat(x.n * y.d, x.d * y.n)
RLess(x, y) == x.n * y.d < y.n * x.d

(* faulty variant: the stored value is never read                         *)
GetDefaultOnly(dict, key, default) == default

(* dict.get(key, default) on a dict modelled as a function to options     *)
Get(dict, key, default) ==
    IF dict[key] = None THEN default ELSE Val(dict[key])

PaperTrader(starting_cash, slippage) ==
    [starting_cash |-> starting_cash, cash |-> starting_cash,
     slippage |-> slippage,
     positions |-> [s \in Symbols |-> None],
     avg_price |-> [s \in Symbols |-> None],
     realized_pnl |-> [s \in Symbols |-> None],
     trade_log |-> <<>>]

(* faulty variant: a sell is filled above the reference price, as a buy   *)
_apply_slippage_upwards(lg, price, side) ==
    IF ~RLess(RInt(0), lg.slippage) THEN price
    ELSE RMul(price, RAdd(RInt(1), lg.slippage))

_apply_slippage(lg, price, side) ==
    IF ~RLess(RInt(0), lg.slippage) THEN price
    ELSE IF side = "buy" THEN RMul(price, RAdd(RInt(1), lg.slippage))
    ELSE RMul(price, RSub(RInt(1), lg.slippage))

(* faulty variant: the reference quantity of the order is logged under    *)
(* the side BUY whatever the order                                        *)
LogEntryAlwaysBuy(sym, side, qty, price) ==
    [symbol |-> sym, side |-> "BUY", qty |-> qty, price |-> price]

LogEntry(sym, side, qty, price) ==
    [symbol |-> sym, side |-> side, qty |-> qty, price |-> price]

Order(lg, accepted, price, at) ==
    [lg |-> lg, ret |-> Some([accepted |-> accepted, price |-> price]),
     at |-> at]

(* faulty variant: the average price entry is kept when the position is   *)
(* closed                                                                 *)
AvgKept(avg, new_qty) == avg

(* avg_price.pop(symbol, None) when the position went to zero             *)
AvgAfterCover(avg, new_qty) == IF new_qty = 0 THEN None ELSE avg

(* faulty variant: the average of the position that was closed survives   *)
(* the flip                                                               *)
AvgKeptOnFlip(prev_avg, trade_price) == prev_avg

(* the remainder of an order larger than the position it met is priced    *)
(* at the fill price                                                      *)
AvgAfterFlip(prev_avg, trade_price) == trade_price

(* faulty variant: a cost equal to the cash is refused                    *)
NoCashLeft(cash, cost) == ~RLess(cost, cash)

(* faulty variant: a buy is accepted whatever it costs                    *)
InsufficientCashNever(cash, cost) == FALSE

InsufficientCash(cash, cost) == RLess(cash, cost)

BuyMarket(lg, symbol, qty0, price) ==
    LET qty == qty0
        trade_price == _apply_slippage(lg, price, "buy")
        cost == RMul(RInt(qty), trade_price)
        prev_qty == Get(lg.positions, symbol, 0)
        prev_avg == Get(lg.avg_price, symbol, trade_price)
        booked ==
            IF prev_qty >= 0
            THEN LET new_qty == prev_qty + qty
                     new_avg ==
                         IF new_qty # 0
                         THEN RDiv(RAdd(RMul(RInt(prev_qty), prev_avg),
                                        RMul(RInt(qty), trade_price)),
                                   RInt(new_qty))
                         ELSE trade_price
                 IN  [lg EXCEPT !.positions[symbol] = Some(new_qty),
                                !.avg_price[symbol] = Some(new_avg)]
            ELSE IF qty <= Abs(prev_qty)
                 THEN [lg EXCEPT !.positions[symbol] = Some(prev_qty + qty),
                                 !.avg_price[symbol] =
                                     AvgAfterCover(@, prev_qty + qty)]
                 ELSE [lg EXCEPT !.positions[symbol] = Some(qty + prev_qty),
                                 !.avg_price[symbol] =
                                     Some(AvgAfterFlip(prev_avg, trade_price))]
    IN  IF qty <= 0 THEN Order(lg, FALSE, price, "buy_bad_qty")
        ELSE IF InsufficientCash(lg.cash, cost)
             THEN Order(lg, FALSE, trade_price, "buy_no_cash")
        ELSE Order([booked EXCEPT
                      !.cash = RSub(lg.cash, cost),
                      !.trade_log = Append(@, LogEntry(symbol, "BUY", qty,
                                                       trade_price))],
                   TRUE, trade_price,
                   IF prev_qty >= 0 THEN "buy_add"
                   ELSE IF qty < Abs(prev_qty) THEN "buy_cover_part"
                   ELSE IF qty = Abs(prev_qty) THEN "buy_cover"
                   ELSE "buy_flip")

(* int(abs(qty)): a negative quantity is sold by its magnitude             *)
SellQty(qty) == Abs(qty)

SellMarket(lg, symbol, qty0, price) ==
    LET qty == SellQty(qty0)
        trade_price == _apply_slippage(lg, price, "sell")
        revenue == RMul(RInt(qty), trade_price)
        prev_qty == Get(lg.positions, symbol, 0)
        prev_avg == Get(lg.avg_price, symbol, trade_price)
        booked ==
            IF prev_qty <= 0
            THEN LET new_qty == prev_qty - qty
                     new_avg ==
                         IF new_qty # 0
                         THEN RDiv(RAdd(RMul(RInt(Abs(prev_qty)), prev_avg),
                                        RMul(RInt(qty), trade_price)),
                                   RInt(Abs(new_qty)))
                         ELSE trade_price
                 IN  [lg EXCEPT !.positions[symbol] = Some(new_qty),
                                !.avg_price[symbol] = Some(new_avg)]
            ELSE IF qty <= prev_qty
                 THEN [lg EXCEPT !.positions[symbol] = Some(prev_qty - qty),
                                 !.avg_price[symbol] =
                                     AvgAfterCover(@, prev_qty - qty)]
                 ELSE [lg EXCEPT !.positions[symbol] = Some(prev_qty - qty),
                                 !.avg_price[symbol] =
                                     Some(AvgAfterFlip(prev_avg, trade_price))]
    IN  IF qty <= 0 THEN Order(lg, FALSE, price, "sell_bad_qty")
        ELSE Order([booked EXCEPT
                      !.cash = RAdd(lg.cash, revenue),
                      !.trade_log = Append(@, LogEntry(symbol, "SELL", qty,
                                                       trade_price))],
                   TRUE, trade_price,
                   IF prev_qty <= 0 THEN "sell_add"
                   ELSE IF qty < prev_qty THEN "sell_cover_part"
                   ELSE IF qty = prev_qty THEN "sell_cover"
                   ELSE "sell_flip")

(* faulty variant: a short trade's P&L computed as a long trade's          *)
RecordRealizedAsLong(lg, symbol, side, qty, entry_price, exit_price) ==
    LET pnl == RMul(RSub(exit_price, entry_price), RInt(qty))
    IN  [lg |-> [lg EXCEPT !.realized_pnl[symbol] =
                     Some(RAdd(Get(lg.realized_pnl, symbol, RInt(0)), pnl))],
         ret |-> Some(pnl), at |-> side]

(* faulty variant: the realized P&L is also credited to the cash           *)
RecordRealizedCrediting(lg, symbol, side, qty, entry_price, exit_price) ==
    LET pnl == IF side = "long"
               THEN RMul(RSub(exit_price, entry_price), RInt(qty))
               ELSE RMul(RSub(entry_price, exit_price), RInt(qty))
    IN  [lg |-> [lg EXCEPT !.realized_pnl[symbol] =
                     Some(RAdd(Get(lg.realized_pnl, symbol, RInt(0)), pnl)),
                           !.cash = RAdd(lg.cash, pnl)],
         ret |-> Some(pnl), at |-> side]

RecordRealizedTradePnl(lg, symbol, side, qty, entry_price, exit_price) ==
    LET pnl == IF side = "long"
               THEN RMul(RSub(exit_price, entry_price), RInt(qty))
               ELSE RMul(RSub(entry_price, exit_price), RInt(qty))
    IN  [lg |-> [lg EXCEPT !.realized_pnl[symbol] =
                     Some(RAdd(Get(lg.realized_pnl, symbol, RInt(0)), pnl))],
         ret |-> Some(pnl), at |-> side]

(* faulty variant: a short position is valued as a long one of the same   *)
(* size                                                                   *)
UnrealizedAsLong(lg, market_prices, symbol) ==
    LET qty == Get(lg.positions, symbol, 0)
        price == market_prices[symbol]
    IN  IF lg.positions[symbol] = None \/ price = None \/ qty = 0
        THEN RInt(0)
        ELSE LET avg == Get(lg.avg_price, symbol, Val(price)) IN
             RMul(RSub(Val(price), avg), RInt(Abs(qty)))

(* the term one instrument adds to the equity                              *)
Unrealized(lg, market_prices, symbol) ==
    LET qty == Get(lg.positions, symbol, 0)
        price == market_prices[symbol]
    IN  IF lg.positions[symbol] = None \/ price = None \/ qty = 0
        THEN RInt(0)
        ELSE LET avg == Get(lg.avg_price, symbol, Val(price)) IN
             IF qty > 0 THEN RMul(RSub(Val(price), avg), RInt(qty))
             ELSE RMul(RSub(avg, Val(price)), RInt(Abs(qty)))

RECURSIVE SumUnrealized(_, _, _)
SumUnrealized(lg, market_prices, symbols) ==
    IF symbols = {} THEN RInt(0)
    ELSE LET sym == CHOOSE x \in symbols : TRUE IN
         RAdd(Unrealized(lg, market_prices, sym),
              SumUnrealized(lg, market_prices, symbols \ {sym}))

MarkToMarket(lg, market_prices) ==
    RAdd(lg.cash, SumUnrealized(lg, market_prices, Symbols))

(* ---------------- CandleBuilder ---------------- *)
(* current is a dict from the key of a bucket (instrument, bucket start)   *)
(* to its candle: a function whose domain is the set of keys present.      *)
CandleBuilder(tf_minutes) ==
    [tf_seconds |-> tf_minutes * 60, current |-> <<>>]

Put(dict, key, value) ==
    [k \in DOMAIN dict \cup {key} |-> IF k = key THEN value ELSE dict[k]]

Bucket(start, o, h, l, c) == [start |-> start, o |-> o, h |-> h, l |-> l, c |-> c]

Max(a, b) == IF a >= b THEN a ELSE b
Min(a, b) == IF a <= b THEN a ELSE b

(* the clean-up of the completing branch                                   *)
CleanOld(current, ts) ==
    IF Cardinality(DOMAIN current) > CleanAbove
    THEN [k \in {j \in DOMAIN current : ts - current[j].start < KeepSeconds}
            |-> current[k]]
    ELSE current

CandleStart(cb, ts) == (ts \div cb.tf_seconds) * cb.tf_seconds

Update(cb, symbol, price, ts) ==
    LET candle_start == CandleStart(cb, ts)
        cndl_key == <<symbol, candle_start>>
    IN  IF cndl_key \notin DOMAIN cb.current
        THEN [cb |-> [cb EXCEPT !.current =
                         Put(cb.current, cndl_key,
                             Bucket(candle_start, price, price, price, price))],
              ret |-> None, at |-> "opened"]
        ELSE LET cndl == cb.current[cndl_key] IN
             IF ts - candle_start < cb.tf_seconds
             THEN [cb |-> [cb EXCEPT !.current[cndl_key] =
                              Bucket(cndl.start, cndl.o, Max(cndl.h, price),
                                     Min(cndl.l, price), price)],
                   ret |-> None, at |-> "updated"]
             ELSE [cb |-> [cb EXCEPT !.current = CleanOld(cb.current, ts)],
                   ret |-> Some(<<cndl.o, cndl.h, cndl.l, cndl.c>>),
                   at |-> "completed"]

(* ---------------- the state machine ---------------- *)
(* the candle builders of the live loop hold no bucket, the loop's table   *)
(* of executed entries is empty and no price was seen (ltp is the loops'   *)
(* dict market_prices)                                                     *)
Idle ==
    /\ builder = [tf \in Timeframes |-> CandleBuilder(tf)]
    /\ open_trades = <<>>
    /\ ltp = [s \in Symbols |-> None]

Init ==
    /\ state = [s \in Symbols |-> _new_symbol_state]
    /\ now = FirstTs
    /\ call = [op |-> "init", symbol |-> "A", at |-> "init"]
    /\ ret = None
    /\ Idle
    /\ ledger = PaperTrader(RInt(StartingCash), RInt(0))

EmaOf(st, tf) == IF tf = 5 THEN st.ema_short ELSE st.ema_long

(* Bounds of the model: time does not run backwards, the updated EMA is    *)
(* exactly representable, and trade ids stay within MaxTradeId.            *)
Feedable(st, h, l, c, ts, tf) ==
    /\ ts >= now
    /\ tf \in {5, 15} => EmaExact(EmaOf(st, tf), c)
    /\ UpdateCandle(st, "A", h, l, c, ts, tf).st.next_trade_id <= MaxTradeId

update_candle_with(s, h, l, c, ts, tf) ==
    /\ Feedable(state[s], h, l, c, ts, tf)
    /\ LET r == UpdateCandle(state[s], s, h, l, c, ts, tf) IN
        /\ state' = [state EXCEPT ![s] = r.st]
        /\ ret' = r.ret
        /\ call' = [op |-> "update_candle", symbol |-> s, at |-> r.at,
                    h |-> h, l |-> l, c |-> c, ts |-> ts, tf |-> tf]
    /\ now' = ts
    /\ UNCHANGED <<ledger, builder, open_trades, ltp>>

(* A candle as the aggregators produce it: low <= open, close <= high.      *)
WellFormed(h, l, c) == l <= c /\ c <= h

update_candle(s) ==
    \E h \in Prices, l \in Prices, c \in Prices,
       ts \in Timestamps, tf \in Timeframes :
        /\ WellFormed(h, l, c)
        /\ update_candle_with(s, h, l, c, ts, tf)

(* update_candle validates nothing: any three numbers are accepted.        *)
update_candle_raw(s, tf) ==
    \E h \in Prices, l \in Prices, c \in Prices, ts \in Timestamps :
        update_candle_with(s, h, l, c, ts, tf)

(* a call for a timeframe the engine does not know (a one-price candle)    *)
update_candle_other(s) ==
    \E c \in Prices, ts \in Timestamps :
        update_candle_with(s, c, c, c, ts, OtherTf)

(* faulty variant: a reported exit also clears the position               *)
exit_signal_clearing(s, price) ==
    /\ ret' = ExitSignal(state[s], s, price)
    /\ call' = [op |-> "exit_signal", symbol |-> s, price |-> price,
                at |-> IF ret' = None THEN "no_exit" ELSE Val(ret').signal]
    /\ state' = IF ret' = None THEN state
                ELSE [state EXCEPT ![s].position = None]
    /\ UNCHANGED <<now, ledger, builder, open_trades, ltp>>

exit_signal_with(s, price) ==
    /\ ret' = ExitSignal(state[s], s, price)
    /\ call' = [op |-> "exit_signal", symbol |-> s, price |-> price,
                at |-> IF ret' = None THEN "no_exit" ELSE Val(ret').signal]
    /\ UNCHANGED <<state, now, ledger, builder, open_trades, ltp>>

exit_signal(s) == \E price \in ExitPrices : exit_signal_with(s, price)

FlatTag(st) ==
    IF InPosition(st)
    THEN IF st.signal_short # None \/ st.signal_long # None
         THEN "closed_pending" ELSE "closed"
    ELSE IF st.signal_short # None /\ st.signal_long # None
         THEN "flat_both_pending" ELSE "flat"

(* faulty variant: every instrument of the engine is flattened            *)
force_flat_all(s) ==
    /\ state' = [t \in Symbols |-> force_flat_state(state[t])]
    /\ ret' = None
    /\ call' = [op |-> "force_flat", symbol |-> s, at |-> FlatTag(state[s])]
    /\ UNCHANGED <<now, ledger, builder, open_trades, ltp>>

force_flat(s) ==
    /\ state' = [state EXCEPT ![s] = force_flat_state(state[s])]
    /\ ret' = None
    /\ call' = [op |-> "force_flat", symbol |-> s, at |-> FlatTag(state[s])]
    /\ UNCHANGED <<now, ledger, builder, open_trades, ltp>>

Next ==
    \E s \in ActiveSymbols :
        \/ update_candle(s)
        \/ exit_signal(s)
        \/ force_flat(s)

Spec == Init /\ [][Next]_vars

(* The short side alone, and the long side alone, on unvalidated candles   *)
(* and with calls for a timeframe the engine does not know.               *)
NextShort ==
    \E s \in ActiveSymbols :
        \/ update_candle_raw(s, 5)
        \/ update_candle_other(s)
        \/ exit_signal(s)
        \/ force_flat(s)

SpecShort == Init /\ [][NextShort]_vars

NextLong ==
    \E s \in ActiveSymbols :
        \/ update_candle_raw(s, 15)
        \/ update_candle_other(s)
        \/ exit_signal(s)
        \/ force_flat(s)

SpecLong == Init /\ [][NextLong]_vars

(* Either side alone, on unvalidated candles: a run feeds the instrument   *)
(* on one timeframe only.                                                 *)
OtherSideUnfed(st, tf) ==
    IF tf = 5 THEN st.ema_long = None ELSE st.ema_short = None

update_candle_side(s) ==
    \E tf \in Timeframes :
        OtherSideUnfed(state[s], tf) /\ update_candle_raw(s, tf)

NextSide ==
    \E s \in ActiveSymbols :
        \/ update_candle_side(s)
        \/ update_candle_other(s)
        \/ exit_signal(s)
        \/ force_flat(s)

SpecSide == Init /\ [][NextSide]_vars

(* Either side alone, one per run, on candles whose low is not above      *)
(* their high; the close is any price.                                    *)
update_candle_ordered(s) ==
    \E h \in Prices, l \in Prices, c \in Prices,
       ts \in Timestamps, tf \in Timeframes :
        /\ l <= h
        /\ OtherSideUnfed(state[s], tf)
        /\ update_candle_with(s, h, l, c, ts, tf)

NextOrdered ==
    \E s \in ActiveSymbols :
        \/ update_candle_ordered(s)
        \/ exit_signal(s)
        \/ force_flat(s)

SpecOrdered == Init /\ [][NextOrdered]_vars

(* Both timeframes on well-formed candles, and calls for a timeframe the  *)
(* engine does not know.                                                  *)
NextFrames ==
    \E s \in ActiveSymbols :
        \/ update_candle(s)
        \/ update_candle_other(s)
        \/ exit_signal(s)
        \/ force_flat(s)

SpecFrames == Init /\ [][NextFrames]_vars

(* Two instruments held by one engine, fed on the fast timeframe with      *)
(* well-formed candles, under any interleaving of their calls.             *)
PairPrices == {1, 2, 4}

update_candle_fast(s) ==
    \E h \in PairPrices, l \in PairPrices, c \in PairPrices,
       ts \in Timestamps :
        /\ WellFormed(h, l, c)
        /\ update_candle_with(s, h, l, c, ts, 5)

NextPair ==
    \E s \in Symbols :
        \/ update_candle_fast(s)
        \/ exit_signal(s)
        \/ force_flat(s)

SpecPair == Init /\ [][NextPair]_vars

(* ---------------- the candle builders' state machine ---------------- *)
(* Ticks of one instrument, in non-decreasing timestamp order, delivered   *)
(* to the builder of one timeframe: a run feeds one builder only.          *)
update(tf, s) ==
    \E price \in TickPrices, ts \in TickTimes :
        /\ ts >= now
        /\ LET r == Update(builder[tf], s, price, ts) IN
            /\ builder' = [builder EXCEPT ![tf] = r.cb]
            /\ ret' = r.ret
            /\ call' = [op |-> "update", symbol |-> s, tf |-> tf,
                        price |-> price, ts |-> ts, at |-> r.at]
        /\ now' = ts
        /\ UNCHANGED <<state, ledger, open_trades, ltp>>

OtherBuildersEmpty(tf) ==
    \A t \in Timeframes \ {tf} : builder[t].current = <<>>

NextTicks ==
    \E tf \in Timeframes, s \in ActiveSymbols :
        OtherBuildersEmpty(tf) /\ update(tf, s)

SpecTicks == Init /\ [][NextTicks]_vars

(* ---------------- the ledger's state machine ---------------- *)
Slippages == {Rat(k, 2) : k \in SlippageHalves}

InitLedger ==
    /\ state = [s \in Symbols |-> _new_symbol_state]
    /\ now = FirstTs
    /\ call = [op |-> "init", symbol |-> "A", at |-> "init"]
    /\ ret = None
    /\ Idle
    /\ ledger \in {PaperTrader(RInt(StartingCash), sl) : sl \in Slippages}

order_with(r, op, s, qty, price) ==
    /\ Len(r.lg.trade_log) <= MaxLogLen
    /\ ledger' = r.lg
    /\ ret' = r.ret
    /\ call' = [op |-> op, symbol |-> s, qty |-> qty, price |-> price,
                at |-> r.at]
    /\ UNCHANGED <<state, now, builder, open_trades, ltp>>

buy_market(s) ==
    \E qty \in OrderQtys, price \in RefPrices :
        order_with(BuyMarket(ledger, s, qty, RInt(price)), "buy_market",
                   s, qty, price)

sell_market(s) ==
    \E qty \in OrderQtys, price \in RefPrices :
        order_with(SellMarket(ledger, s, qty, RInt(price)), "sell_market",
                   s, qty, price)

record_realized_trade_pnl(s) ==
    \E side \in {"long", "short"}, entry \in {EntryPrice},
       exit \in RefPrices :
        LET r == RecordRealizedTradePnl(ledger, s, side, 1, RInt(entry),
                                        RInt(exit))
            total == Val(r.lg.realized_pnl[s])
        IN  /\ Abs(total.n) <= MaxRealizedPnl * total.d
            /\ ledger' = r.lg
            /\ ret' = r.ret
            /\ call' = [op |-> "record_realized_trade_pnl", symbol |-> s,
                        side |-> side, qty |-> 1, entry |-> entry,
                        exit |-> exit, at |-> r.at]
            /\ UNCHANGED <<state, now, builder, open_trades, ltp>>

MarketPriceMaps == [Symbols -> {None, Some(RInt(MarkPrice))}]

(* faulty variant: the equity computed is stored as the cash              *)
mark_to_market_storing ==
    \E market_prices \in MarketPriceMaps :
        /\ ret' = Some(MarkToMarket(ledger, market_prices))
        /\ call' = [op |-> "mark_to_market", symbol |-> "A",
                    prices |-> market_prices, at |-> "equity"]
        /\ ledger' = [ledger EXCEPT !.cash = Val(ret')]
        /\ UNCHANGED <<state, now, builder, open_trades, ltp>>

mark_to_market ==
    \E market_prices \in MarketPriceMaps :
        /\ ret' = Some(MarkToMarket(ledger, market_prices))
        /\ call' = [op |-> "mark_to_market", symbol |-> "A",
                    prices |-> market_prices, at |-> "equity"]
        /\ UNCHANGED <<state, now, ledger, builder, open_trades, ltp>>

NextLedger ==
    \/ \E s \in Symbols :
           \/ buy_market(s)
           \/ sell_market(s)
    \/ \E s \in ActiveSymbols : record_realized_trade_pnl(s)
    \/ mark_to_market

(* All four operations, on a ledger constructed with slippage.             *)
InitSlipped ==
    /\ InitLedger
    /\ RLess(RInt(0), ledger.slippage)

SpecLedger == InitSlipped /\ [][NextLedger]_vars

(* Orders alone, on ledgers constructed with or without slippage.          *)
NextOrders ==
    \E s \in Symbols :
        \/ buy_market(s)
        \/ sell_market(s)

SpecOrders == InitLedger /\ [][NextOrders]_vars

(* Orders on ledgers constructed with any slippage, negative included.     *)
InitAnySlippage ==
    /\ state = [s \in Symbols |-> _new_symbol_state]
    /\ now = FirstTs
    /\ call = [op |-> "init", symbol |-> "A", at |-> "init"]
    /\ ret = None
    /\ Idle
    /\ ledger \in {PaperTrader(RInt(StartingCash), Rat(k, 2)) :
                      k \in AnySlippageHalves}

SpecSlippage == InitAnySlippage /\ [][NextOrders]_vars

(* Trades of one instrument and the realized P&L recorded for them, for   *)
(* several quantities.                                                    *)
record_trade_pnl(s) ==
    \E side \in {"long", "short"}, qty \in PnlQtys,
       entry \in RefPrices, exit \in RefPrices :
        LET r == RecordRealizedTradePnl(ledger, s, side, qty, RInt(entry),
                                        RInt(exit))
            total == Val(r.lg.realized_pnl[s])
        IN  /\ Abs(total.n) <= MaxPnlTotal * total.d
            /\ ledger' = r.lg
            /\ ret' = r.ret
            /\ call' = [op |-> "record_realized_trade_pnl", symbol |-> s,
                        side |-> side, qty |-> qty, entry |-> entry,
                        exit |-> exit, at |-> r.at]
            /\ UNCHANGED <<state, now, builder, open_trades, ltp>>

NextPnl ==
    \E s \in ActiveSymbols :
        \/ buy_market(s)
        \/ sell_market(s)
        \/ record_trade_pnl(s)

SpecPnl == Init /\ [][NextPnl]_vars

(* ---------------- the backtest loop ---------------- *)
(* One event of the loop: a 5-minute candle of an instrument and, when the *)
(* 15-minute index has one at the same time, a 15-minute candle. The       *)
(* ledger is the instrument's own (traders[s]).                            *)
Trunc(x) == IF x.n >= 0 THEN x.n \div x.d ELSE 0 - ((0 - x.n) \div x.d)

Remove(dict, key) == [k \in DOMAIN dict \ {key} |-> dict[k]]

OnlyPrice(s, c) == [x \in Symbols |-> IF x = s THEN Some(RInt(c)) ELSE None]

Loop(st, lg, ot, at) == [st |-> st, lg |-> lg, ot |-> ot, at |-> at]

(* ----- ENTRY -----                                                       *)
EntryQty(lg, s, c, entry, sl) ==
    LET risk == Abs(entry - sl) IN
    IF risk > 0
    THEN Trunc(RDiv(RMul(MarkToMarket(lg, OnlyPrice(s, c)), RiskPerTrade),
                    RInt(risk)))
    ELSE 0

LoopEntry(st, lg, ot, s, c, signal) ==
    IF signal = None THEN Loop(st, lg, ot, "no_signal")
    ELSE LET sig == Val(signal)
             pos == st.position
         IN  IF pos = None \/ Val(pos).trade_id # sig.trade_id
             THEN Loop(st, lg, ot, "continue")
             ELSE LET side_new == IF sig.signal = "long_entry" THEN "long"
                                  ELSE "short"
                      qty == EntryQty(lg, s, c, sig.entry, sig.sl)
                      r == IF side_new = "long"
                           THEN BuyMarket(lg, s, qty, RInt(sig.entry))
                           ELSE SellMarket(lg, s, qty, RInt(sig.entry))
                  IN  IF qty <= 0 THEN Loop(st, lg, ot, "entry_skipped")
                      ELSE IF Val(r.ret).accepted
                           THEN Loop(st, r.lg,
                                     Put(ot, <<s, sig.trade_id>>,
                                         [side |-> side_new, qty |-> qty,
                                          entry |-> Val(r.ret).price,
                                          sl |-> sig.sl, tp |-> sig.tp]),
                                     "entry_executed")
                           ELSE Loop(st, lg, ot, "entry_failed")

(* ----- EXIT -----                                                        *)
LoopExit(st, lg, ot, s, c, entered) ==
    LET exit_sig == IF st.position # None THEN ExitSignal(st, s, c) ELSE None
    IN  IF exit_sig = None THEN Loop(st, lg, ot, entered)
        ELSE LET sig == Val(exit_sig)
                 pos == st.position
                 key == <<s, sig.trade_id>>
             IN  IF pos = None \/ Val(pos).trade_id # sig.trade_id
                 THEN Loop(st, lg, ot, "exit_skipped_no_position")
                 ELSE IF key \notin DOMAIN ot
                 THEN Loop(st, lg, ot, "exit_skipped_mismatch")
                 ELSE LET info == ot[key]
                          r == IF sig.side = "short"
                               THEN BuyMarket(lg, s, info.qty,
                                              RInt(sig.exit_price))
                               ELSE SellMarket(lg, s, info.qty,
                                               RInt(sig.exit_price))
                          ok == Val(r.ret).accepted
                          actual_exit == IF ok THEN Val(r.ret).price
                                         ELSE RInt(sig.exit_price)
                          rec == RecordRealizedTradePnl(r.lg, s, sig.side,
                                     info.qty, info.entry, actual_exit)
                      IN  Loop(force_flat_state(st), rec.lg, Remove(ot, key),
                               IF ok THEN "exit_executed" ELSE "exit_failed")

(* ----- 5m + 15m SIGNALS -----                                            *)
(* faulty variant: the slow call does not see the position the fast call  *)
(* has just opened                                                         *)
Feed15Unblocked(st, s, c15, ts) ==
    IF c15 = None THEN Result(st, None, "no_15m")
    ELSE UpdateCandle([st EXCEPT !.position = None], s, Val(c15).high,
                      Val(c15).low, Val(c15).close, ts, 15)

Feed15(st, s, c15, ts) ==
    IF c15 = None THEN Result(st, None, "no_15m")
    ELSE UpdateCandle(st, s, Val(c15).high, Val(c15).low, Val(c15).close,
                      ts, 15)

(* sig_15 or sig_5                                                         *)
SignalOr(sig_15, sig_5) == IF sig_15 # None THEN sig_15 ELSE sig_5

(* the 15-minute candle stamped with the time of a 5-minute candle is the  *)
(* aggregate of that candle and the two before it: its close is that       *)
(* candle's close, its high is no lower and its low no higher              *)
Candles15(h, l, c) ==
    {None} \cup {Some([high |-> h15, low |-> l15, close |-> c]) :
                    h15 \in {x \in LoopPrices : x >= h},
                    l15 \in {x \in LoopPrices : x <= l}}

event(s) ==
    \E h \in LoopPrices, l \in LoopPrices, c \in LoopPrices,
       ts \in Timestamps :
      \E c15 \in Candles15(h, l, c) :
        /\ WellFormed(h, l, c)
        /\ ts >= now
        /\ EmaExact(state[s].ema_short, c)
        /\ c15 # None => EmaExact(state[s].ema_long, Val(c15).close)
        /\ \E r5 \in {UpdateCandle(state[s], s, h, l, c, ts, 5)} :
           \E r15 \in {Feed15(r5.st, s, c15, ts)} :
           \E e \in {LoopEntry(r15.st, ledger, open_trades, s, c,
                               SignalOr(r15.ret, r5.ret))} :
           \E r \in {IF e.at = "continue" THEN e
                     ELSE LoopExit(e.st, e.lg, e.ot, s, c, e.at)} :
               /\ r.st.next_trade_id <= MaxTradeId
               /\ Len(r.lg.trade_log) <= MaxLogLen
               /\ state' = [state EXCEPT ![s] = r.st]
               /\ ledger' = r.lg
               /\ open_trades' = r.ot
               /\ call' = [op |-> "event", symbol |-> s, h |-> h, l |-> l,
                           c |-> c, ts |-> ts, c15 |-> c15, at |-> r.at]
        /\ ltp' = [ltp EXCEPT ![s] = Some(RInt(c))]
        /\ ret' = None
        /\ now' = ts
        /\ UNCHANGED builder

NextLoop == \E s \in ActiveSymbols : event(s)

SpecLoop == InitLedger /\ [][NextLoop]_vars

(* ---------------- build_15m_from_5m ---------------- *)
Max3(a, b, c) == Max(a, Max(b, c))
Min3(a, b, c) == Min(a, Min(b, c))

(* faulty variant: the high and the low of the middle candle are not       *)
(* looked at                                                               *)
AggregateEnds(bucket) ==
    [dt |-> bucket[3].dt, o |-> bucket[1].o,
     h |-> Max(bucket[1].h, bucket[3].h),
     l |-> Min(bucket[1].l, bucket[3].l), c |-> bucket[3].c]

Aggregate(bucket) ==
    [dt |-> bucket[3].dt, o |-> bucket[1].o,
     h |-> Max3(bucket[1].h, bucket[2].h, bucket[3].h),
     l |-> Min3(bucket[1].l, bucket[2].l, bucket[3].l), c |-> bucket[3].c]

(* the for loop, from the i-th candle on, with the bucket being filled     *)
RECURSIVE Build15(_, _, _)
Build15(candles_5m, i, bucket) ==
    IF i > Len(candles_5m) THEN <<>>
    ELSE IF Len(bucket) + 1 = 3
         THEN <<Aggregate(Append(bucket, candles_5m[i]))>>
                \o Build15(candles_5m, i + 1, <<>>)
         ELSE Build15(candles_5m, i + 1, Append(bucket, candles_5m[i]))

build_15m_from_5m_of(candles_5m) == Build15(candles_5m, 1, <<>>)

(* 5-minute candles (open, high, low, close): flat, rising, falling, and   *)
(* one whose high is below its low                                         *)
Shapes5 == {<<1, 1, 1, 1>>, <<2, 3, 2, 3>>, <<2, 2, 1, 1>>, <<1, 1, 2, 1>>}

Candle5(i, shape) ==
    [dt |-> FirstTs + CandleSeconds * i, o |-> shape[1], h |-> shape[2],
     l |-> shape[3], c |-> shape[4]]

Inputs5 ==
    UNION {{[i \in 1..n |-> Candle5(i, shapes[i])] :
               shapes \in [1..n -> Shapes5]} : n \in 0..MaxCandles}

(* the candles read from the instrument's file are drawn at the start and  *)
(* aggregated once                                                         *)
InitBuild ==
    /\ state = [s \in Symbols |-> _new_symbol_state]
    /\ now = FirstTs
    /\ call \in {[op |-> "init", symbol |-> "A", at |-> "init",
                  candles |-> candles_5m] : candles_5m \in Inputs5}
    /\ ret = None
    /\ Idle
    /\ ledger = PaperTrader(RInt(StartingCash), RInt(0))

build_15m_from_5m ==
    /\ call.op = "init"
    /\ ret' = Some(build_15m_from_5m_of(call.candles))
    /\ call' = [op |-> "build_15m_from_5m", symbol |-> "A",
                candles |-> call.candles, at |-> "return"]
    /\ UNCHANGED <<state, now, ledger, builder, open_trades, ltp>>

NextBuild == build_15m_from_5m

SpecBuild == InitBuild /\ [][NextBuild]_vars

(* ---------------- the live loop ---------------- *)
(* One polling cycle: the two instruments in turn are asked for their      *)
(* price (for s in symbols); the tick goes to both candle builders, a      *)
(* completed candle goes to the engine, then the entry and the exit are    *)
(* handled as in the backtest, with one ledger for all instruments.  A     *)
(* tick is None when get_price raised.                                     *)
World(st, lg, ot, bld, mp, exact, at) ==
    [state |-> st, ledger |-> lg, open_trades |-> ot, builder |-> bld,
     ltp |-> mp, exact |-> exact, at |-> at]

LiveEntry(st, lg, ot, mp, s, signal) ==
    IF signal = None THEN Loop(st, lg, ot, "no_signal")
    ELSE LET sig == Val(signal)
             pos == st.position
         IN  IF pos = None \/ Val(pos).trade_id # sig.trade_id
             THEN Loop(st, lg, ot, "continue")
             ELSE LET side_new == IF sig.signal = "long_entry" THEN "long"
                                  ELSE "short"
                      risk == Abs(sig.entry - sig.sl)
                      qty == IF risk <= 0 THEN 0
                             ELSE Trunc(RDiv(RMul(MarkToMarket(lg, mp),
                                                  RiskPerTrade), RInt(risk)))
                      r == IF side_new = "long"
                           THEN BuyMarket(lg, s, qty, RInt(sig.entry))
                           ELSE SellMarket(lg, s, qty, RInt(sig.entry))
                  IN  IF risk <= 0 \/ qty <= 0 THEN Loop(st, lg, ot, "continue")
                      ELSE IF Val(r.ret).accepted
                           THEN Loop(st, r.lg,
                                     Put(ot, <<s, sig.trade_id>>,
                                         [side |-> side_new, qty |-> qty,
                                          entry |-> Val(r.ret).price,
                                          sl |-> sig.sl, tp |-> sig.tp]),
                                     "entry_executed")
                           ELSE Loop(st, lg, ot, "entry_failed")

(* the engine is fed the candle a builder returned, if it returned one     *)
FeedCompleted(st, s, completed, ts, tf) ==
    IF completed = None THEN Result(st, None, "no_candle")
    ELSE UpdateCandle(st, s, Val(completed)[2], Val(completed)[3],
                      Val(completed)[4], ts, tf)

CompletedExact(ema, completed) ==
    completed # None => EmaExact(ema, Val(completed)[4])

(* the stages of one instrument's turn, each given the results of the      *)
(* stages before it                                                        *)
PollExit(w, s, bld, mp, exact, x) ==
    World([w.state EXCEPT ![s] = x.st], x.lg, x.ot, bld, mp, exact, x.at)

PollEntry(w, s, price, bld, mp, exact, e) ==
    PollExit(w, s, bld, mp, exact,
             IF e.at = "continue" THEN e
             ELSE LoopExit(e.st, e.lg, e.ot, s, price, e.at))

PollSignals(w, s, price, bld, mp, exact, r5, r15) ==
    PollEntry(w, s, price, bld, mp, exact,
              LiveEntry(r15.st, w.ledger, w.open_trades, mp, s,
                        SignalOr(r15.ret, r5.ret)))

PollFed(w, s, price, ts, u5, u15, r5) ==
    PollSignals(w, s, price,
                [tf \in Timeframes |-> IF tf = 5 THEN u5.cb ELSE u15.cb],
                [w.ltp EXCEPT ![s] = Some(RInt(price))],
                /\ w.exact
                /\ CompletedExact(w.state[s].ema_short, u5.ret)
                /\ CompletedExact(r5.st.ema_long, u15.ret),
                r5, FeedCompleted(r5.st, s, u15.ret, ts, 15))

PollBuilt(w, s, price, ts, u5, u15) ==
    PollFed(w, s, price, ts, u5, u15,
            FeedCompleted(w.state[s], s, u5.ret, ts, 5))

PollTick(w, s, price, ts) ==
    PollBuilt(w, s, price, ts, Update(w.builder[5], s, price, ts),
              Update(w.builder[15], s, price, ts))

PriceError(w) ==
    World(w.state, w.ledger, w.open_trades, w.builder, w.ltp, w.exact,
          "price_error")

(* faulty variant: a failed price read ends the cycle for the instruments  *)
(* after it as well                                                        *)
PollBreaking(w, s, tick) ==
    IF tick = None \/ w.at = "price_error" THEN PriceError(w)
    ELSE PollTick(w, s, Val(tick).price, Val(tick).time)

Poll(w, s, tick) ==
    IF tick = None THEN PriceError(w)
    ELSE PollTick(w, s, Val(tick).price, Val(tick).time)

LiveTicks ==
    {None} \cup {Some([price |-> p, time |-> t]) :
                    p \in LivePrices, t \in LiveTimes}

(* the clock does not run backwards within a cycle or between cycles       *)
InOrder(ticks) ==
    /\ \A s \in Symbols : ticks[s] # None => Val(ticks[s]).time >= now
    /\ \A i, j \in 1..Len(SymbolOrder) :
          (i < j /\ ticks[SymbolOrder[i]] # None /\ ticks[SymbolOrder[j]] # None)
            => Val(ticks[SymbolOrder[i]]).time <= Val(ticks[SymbolOrder[j]]).time

LastTime(ticks) ==
    LET times == {now} \cup {Val(ticks[s]).time :
                                s \in {t \in Symbols : ticks[t] # None}}
    IN  CHOOSE t \in times : \A u \in times : u <= t

cycle ==
    \E ticks \in [Symbols -> LiveTicks] :
        /\ InOrder(ticks)
        /\ \E w0 \in {World(state, ledger, open_trades, builder, ltp, TRUE,
                              "start")} :
           \E w1 \in {Poll(w0, SymbolOrder[1], ticks[SymbolOrder[1]])} :
           \E w \in {Poll(w1, SymbolOrder[2], ticks[SymbolOrder[2]])} :
               /\ w.exact
               /\ \A s \in Symbols : w.state[s].next_trade_id <= MaxTradeId
               /\ Len(w.ledger.trade_log) <= MaxLogLen
               /\ state' = w.state
               /\ ledger' = w.ledger
               /\ open_trades' = w.open_trades
               /\ builder' = w.builder
               /\ ltp' = w.ltp
               /\ call' = [op |-> "cycle", symbol |-> SymbolOrder[1],
                           ticks |-> ticks,
                           at |-> <<w1.at, w.at>>]
        /\ ret' = None
        /\ now' = LastTime(ticks)

NextLive == cycle

SpecLive == Init /\ [][NextLive]_vars

(* ---------------- properties ---------------- *)
Sym == CHOOSE s \in ActiveSymbols : TRUE
Cur == state[Sym]

Updated(s) == call'.op = "update_candle" /\ call'.symbol = s
QuotaLeft(st, ts) ==
    st.current_day = Some(DayOf(ts)) => st.trades_today < MaxTradesPerDay
Flat(st) == st.position = None

(* C1: while a position is open for an instrument, every update_candle    *)
(* call for it, on either timeframe, returns None and leaves the position *)
(* record as it is; only force_flat ends this.                            *)
C1_NoConcurrentEntries ==
    [][\A s \in Symbols :
        (Updated(s) /\ ~Flat(state[s]))
            => /\ ret' = None
               /\ state'[s].position = state[s].position]_vars

(* a slow-timeframe candle closing above the pending long high arrived    *)
(* while a short position was open, and was refused                       *)
C1_Witness ==
    /\ call.op = "update_candle" /\ call.tf = 15 /\ call.at = "in_position"
    /\ ret = None
    /\ ~Flat(Cur) /\ Val(Cur.position).side = "short"
    /\ Cur.signal_long # None /\ call.c > Val(Cur.signal_long).high

(* C2: exit_signal changes no field of any instrument, whatever it        *)
(* returns; a position is cleared by force_flat only; and asking again    *)
(* with the same price gives the same answer.                             *)
C2_ExitSignalPure ==
    [][/\ call'.op = "exit_signal" => state' = state
       /\ \A s \in Symbols :
            (~Flat(state[s]) /\ Flat(state'[s]))
                => call'.op = "force_flat" /\ call'.symbol = s
       /\ (call.op = "exit_signal" /\ call'.op = "exit_signal"
           /\ call'.symbol = call.symbol /\ call'.price = call.price)
                => ret' = ret]_vars

(* exit_signal returned an exit and the position is still open            *)
C2_Witness ==
    /\ call.op = "exit_signal" /\ ret # None
    /\ ~Flat(Cur) /\ Val(ret).trade_id = Val(Cur.position).trade_id

(* C3: force_flat clears the position and both pending signal candles and *)
(* leaves both EMAs, trades_today, current_day and next_trade_id alone.   *)
C3_ForceFlat ==
    [][\A s \in Symbols :
        (call'.op = "force_flat" /\ call'.symbol = s)
            => /\ state'[s].position = None
               /\ state'[s].signal_short = None
               /\ state'[s].signal_long = None
               /\ state'[s].ema_short = state[s].ema_short
               /\ state'[s].ema_long = state[s].ema_long
               /\ state'[s].trades_today = state[s].trades_today
               /\ state'[s].current_day = state[s].current_day
               /\ state'[s].next_trade_id = state[s].next_trade_id]_vars

(* force_flat closed a position while a signal candle was pending, after  *)
(* a trade had been counted                                               *)
C3_Witness ==
    /\ call.op = "force_flat" /\ call.at = "closed_pending"
    /\ Flat(Cur) /\ Cur.signal_short = None /\ Cur.signal_long = None
    /\ Cur.trades_today > 0 /\ Cur.next_trade_id > 1

TradesBefore(st, ts) ==
    IF st.current_day = Some(DayOf(ts)) THEN st.trades_today ELSE 0

ShortPosition(st, c) ==
    LET sig == Val(st.signal_short) IN
    [side |-> "short", entry |-> c, sl |-> sig.high,
     tp |-> c - RR * (sig.high - c), trade_id |-> st.next_trade_id]

LongPosition(st, c) ==
    LET sig == Val(st.signal_long) IN
    [side |-> "long", entry |-> c, sl |-> sig.low,
     tp |-> c + RR * (c - sig.low), trade_id |-> st.next_trade_id]

SignalOf(s, kind, pos) ==
    [symbol |-> s, signal |-> kind, entry |-> pos.entry, sl |-> pos.sl,
     tp |-> pos.tp, trade_id |-> pos.trade_id]

(* C4 as stated: flat, quota left, a short signal candle pending: a fast  *)
(* candle closing strictly below the pending low opens a short position   *)
(* with entry = close, sl = pending high, tp = entry - rr * (sl - entry)   *)
(* and the next trade id, counts one more trade today, clears the pending  *)
(* short signal and returns a short_entry signal with the same values.     *)
C4_ShortEntryAlways ==
    [][\A s \in Symbols :
        (/\ Updated(s) /\ call'.tf = 5
         /\ Flat(state[s]) /\ QuotaLeft(state[s], call'.ts)
         /\ state[s].signal_short # None
         /\ call'.c < Val(state[s].signal_short).low)
            => LET pos == ShortPosition(state[s], call'.c) IN
               /\ state'[s].position = Some(pos)
               /\ state'[s].trades_today = TradesBefore(state[s], call'.ts) + 1
               /\ state'[s].next_trade_id = state[s].next_trade_id + 1
               /\ state'[s].signal_short = None
               /\ ret' = Some(SignalOf(s, "short_entry", pos))]_vars

(* C4: the same, for a close that is also strictly below the pending high *)
(* (a positive risk sl - entry), wherever the candle's low lies with       *)
(* respect to the EMA.                                                     *)
C4_ShortEntry ==
    [][\A s \in Symbols :
        (/\ Updated(s) /\ call'.tf = 5
         /\ Flat(state[s]) /\ QuotaLeft(state[s], call'.ts)
         /\ state[s].signal_short # None
         /\ call'.c < Val(state[s].signal_short).low
         /\ call'.c < Val(state[s].signal_short).high)
            => LET pos == ShortPosition(state[s], call'.c) IN
               /\ state'[s].position = Some(pos)
               /\ state'[s].trades_today = TradesBefore(state[s], call'.ts) + 1
               /\ state'[s].next_trade_id = state[s].next_trade_id + 1
               /\ state'[s].signal_short = None
               /\ ret' = Some(SignalOf(s, "short_entry", pos))]_vars

(* a short entry was returned on a candle whose low is at or below the    *)
(* updated EMA                                                            *)
C4_Witness ==
    /\ call.op = "update_candle" /\ call.tf = 5 /\ call.at = "short_entry"
    /\ ret # None /\ Val(ret).signal = "short_entry"
    /\ ~Flat(Cur) /\ Val(Cur.position).entry = call.c
    /\ call.l * Den <= Val(Cur.ema_short)

(* C5 as stated: flat, quota left, a long signal candle pending: a slow   *)
(* candle closing strictly above the pending high opens a long position    *)
(* with entry = close, sl = pending low, tp = entry + rr * (entry - sl)    *)
(* and the next trade id, counts one more trade today, clears the pending  *)
(* long signal and returns a long_entry signal with the same values.       *)
C5_LongEntryAlways ==
    [][\A s \in Symbols :
        (/\ Updated(s) /\ call'.tf = 15
         /\ Flat(state[s]) /\ QuotaLeft(state[s], call'.ts)
         /\ state[s].signal_long # None
         /\ call'.c > Val(state[s].signal_long).high)
            => LET pos == LongPosition(state[s], call'.c) IN
               /\ state'[s].position = Some(pos)
               /\ state'[s].trades_today = TradesBefore(state[s], call'.ts) + 1
               /\ state'[s].next_trade_id = state[s].next_trade_id + 1
               /\ state'[s].signal_long = None
               /\ ret' = Some(SignalOf(s, "long_entry", pos))]_vars

(* C5: the same, for a close that is also strictly above the pending low   *)
(* (a positive risk entry - sl).                                           *)
C5_LongEntry ==
    [][\A s \in Symbols :
        (/\ Updated(s) /\ call'.tf = 15
         /\ Flat(state[s]) /\ QuotaLeft(state[s], call'.ts)
         /\ state[s].signal_long # None
         /\ call'.c > Val(state[s].signal_long).high
         /\ call'.c > Val(state[s].signal_long).low)
            => LET pos == LongPosition(state[s], call'.c) IN
               /\ state'[s].position = Some(pos)
               /\ state'[s].trades_today = TradesBefore(state[s], call'.ts) + 1
               /\ state'[s].next_trade_id = state[s].next_trade_id + 1
               /\ state'[s].signal_long = None
               /\ ret' = Some(SignalOf(s, "long_entry", pos))]_vars

(* a long entry was returned and its position is held                     *)
C5_Witness ==
    /\ call.op = "update_candle" /\ call.tf = 15 /\ call.at = "long_entry"
    /\ ret # None /\ Val(ret).signal = "long_entry"
    /\ ~Flat(Cur) /\ Val(Cur.position).entry = call.c
    /\ Val(Cur.position).tp > call.c /\ Val(Cur.position).sl < call.c

ExitOf(s, kind, level, pos) ==
    Some([symbol |-> s, signal |-> kind, exit_price |-> level,
          trade_id |-> pos.trade_id, side |-> pos.side])

(* C6: exit_signal returns None when flat; for a short position exit_sl   *)
(* at sl when price >= sl, else exit_tp at tp when price <= tp, else      *)
(* None; for a long position exit_sl at sl when price <= sl, else exit_tp *)
(* at tp when price >= tp, else None; side and trade id are the           *)
(* position's.                                                            *)
C6_ExitSignal ==
    [][\A s \in Symbols :
        (call'.op = "exit_signal" /\ call'.symbol = s)
            => LET price == call'.price IN
               IF Flat(state[s]) THEN ret' = None
               ELSE LET pos == Val(state[s].position) IN
                    IF pos.side = "short"
                    THEN ret' = IF price >= pos.sl THEN ExitOf(s, "exit_sl", pos.sl, pos)
                                ELSE IF price <= pos.tp THEN ExitOf(s, "exit_tp", pos.tp, pos)
                                ELSE None
                    ELSE ret' = IF price <= pos.sl THEN ExitOf(s, "exit_sl", pos.sl, pos)
                                ELSE IF price >= pos.tp THEN ExitOf(s, "exit_tp", pos.tp, pos)
                                ELSE None]_vars

(* a stop exit was reported at the stored level for a price beyond it     *)
C6_Witness ==
    /\ call.op = "exit_signal" /\ ret # None
    /\ Val(ret).signal = "exit_sl" /\ Val(ret).exit_price # call.price
    /\ ~Flat(Cur) /\ Val(ret).exit_price = Val(Cur.position).sl

(* C7: once max_trades_per_day entries were opened on the current day,    *)
(* an update_candle call on that day returns None, opens no position,     *)
(* allocates no trade id and creates no pending signal candle; a candle   *)
(* of another day resets the counter; trades_today never exceeds the      *)
(* maximum.                                                               *)
C7_DailyQuota ==
    [][\A s \in Symbols :
        /\ state'[s].trades_today <= MaxTradesPerDay
        /\ (/\ Updated(s)
            /\ state[s].trades_today >= MaxTradesPerDay
            /\ state[s].current_day = Some(DayOf(call'.ts)))
              => /\ ret' = None
                 /\ state'[s].position = state[s].position
                 /\ state'[s].next_trade_id = state[s].next_trade_id
                 /\ state'[s].trades_today = state[s].trades_today
                 /\ state'[s].signal_short \in {None, state[s].signal_short}
                 /\ state'[s].signal_long \in {None, state[s].signal_long}
        /\ (/\ Updated(s)
            /\ state[s].trades_today >= MaxTradesPerDay
            /\ state[s].current_day # Some(DayOf(call'.ts)))
              => /\ state'[s].trades_today = 0
                 /\ state'[s].current_day = Some(DayOf(call'.ts))]_vars

(* flat with the quota used up, a fast candle lying wholly above the EMA  *)
(* was refused: no signal candle is pending                               *)
C7_Witness ==
    /\ call.op = "update_candle" /\ call.tf = 5 /\ call.at = "quota"
    /\ Flat(Cur) /\ Cur.trades_today = MaxTradesPerDay
    /\ call.l * Den > Val(Cur.ema_short) /\ call.h * Den > Val(Cur.ema_short)
    /\ Cur.signal_short = None /\ ret = None

(* C8: flat, quota left, no short signal candle pending: a well-formed    *)
(* fast candle becomes the pending short signal candle {high, low}        *)
(* exactly when its low and its close are both strictly above the updated *)
(* short EMA; the call returns None and opens no position.                *)
C8_ShortSignalCreation ==
    [][\A s \in Symbols :
        (/\ Updated(s) /\ call'.tf = 5
         /\ Flat(state[s]) /\ QuotaLeft(state[s], call'.ts)
         /\ state[s].signal_short = None
         /\ WellFormed(call'.h, call'.l, call'.c))
            => LET ema == Val(state'[s].ema_short) IN
               /\ state'[s].signal_short =
                    IF call'.l * Den > ema /\ call'.c * Den > ema
                    THEN Some([high |-> call'.h, low |-> call'.l])
                    ELSE None
               /\ ret' = None
               /\ Flat(state'[s])]_vars

(* a well-formed fast candle became the pending short signal candle       *)
C8_Witness ==
    /\ call.op = "update_candle" /\ call.tf = 5 /\ call.at = "short_signal"
    /\ WellFormed(call.h, call.l, call.c)
    /\ Cur.signal_short = Some([high |-> call.h, low |-> call.l])
    /\ call.l * Den > Val(Cur.ema_short)
    /\ Flat(Cur) /\ ret = None

(* C9: flat, quota left, a short signal candle pending: after a fast      *)
(* candle whose low is at or below the updated short EMA no short signal  *)
(* candle is pending.                                                     *)
C9_ShortSignalInvalidation ==
    [][\A s \in Symbols :
        (/\ Updated(s) /\ call'.tf = 5
         /\ Flat(state[s]) /\ QuotaLeft(state[s], call'.ts)
         /\ state[s].signal_short # None
         /\ call'.l * Den <= Val(state'[s].ema_short))
            => state'[s].signal_short = None]_vars

(* a pending short signal candle was invalidated by a low at or below the *)
(* EMA, without a trigger                                                 *)
C9_Witness ==
    /\ call.op = "update_candle" /\ call.tf = 5 /\ call.at = "short_invalid"
    /\ call.l * Den <= Val(Cur.ema_short)
    /\ Cur.signal_short = None /\ Flat(Cur) /\ ret = None

(* C10: flat, quota left, a short signal candle pending: a fast candle    *)
(* whose low is strictly above the updated short EMA and whose close is   *)
(* not below the pending low replaces the pending candle by its own       *)
(* {high, low}; the call returns None and opens no position.              *)
C10_ShortRollingReplacement ==
    [][\A s \in Symbols :
        (/\ Updated(s) /\ call'.tf = 5
         /\ Flat(state[s]) /\ QuotaLeft(state[s], call'.ts)
         /\ state[s].signal_short # None
         /\ call'.l * Den > Val(state'[s].ema_short)
         /\ call'.c >= Val(state[s].signal_short).low)
            => /\ state'[s].signal_short =
                    Some([high |-> call'.h, low |-> call'.l])
               /\ ret' = None
               /\ Flat(state'[s])]_vars

(* the pending short signal candle was replaced by the latest candle      *)
C10_Witness ==
    /\ call.op = "update_candle" /\ call.tf = 5 /\ call.at = "short_roll"
    /\ Cur.signal_short = Some([high |-> call.h, low |-> call.l])
    /\ call.l * Den > Val(Cur.ema_short)
    /\ Flat(Cur) /\ ret = None

(* C11 as stated: flat, quota left, on a slow candle: with no long signal  *)
(* candle pending the candle becomes pending exactly when its high and its *)
(* close are strictly below the updated long EMA; with one pending and no  *)
(* trigger (close <= pending high) it is replaced by the candle's          *)
(* {high, low} when the high is strictly below the EMA and cleared when    *)
(* the high is at or above it.                                             *)
C11_LongSignalHighClose ==
    [][\A s \in Symbols :
        (/\ Updated(s) /\ call'.tf = 15
         /\ Flat(state[s]) /\ QuotaLeft(state[s], call'.ts))
            => LET ema == Val(state'[s].ema_long)
                   new == Some([high |-> call'.h, low |-> call'.l])
               IN  IF state[s].signal_long = None
                   THEN state'[s].signal_long =
                            IF call'.h * Den < ema /\ call'.c * Den < ema
                            THEN new ELSE None
                   ELSE call'.c <= Val(state[s].signal_long).high
                            => state'[s].signal_long =
                                 IF call'.h * Den < ema THEN new ELSE None]_vars

(* C11: the same, the candle becoming pending exactly when its high and    *)
(* its low are strictly below the updated long EMA (for a candle with      *)
(* low <= close <= high: exactly when its high and close are).             *)
C11_LongSignal ==
    [][\A s \in Symbols :
        (/\ Updated(s) /\ call'.tf = 15
         /\ Flat(state[s]) /\ QuotaLeft(state[s], call'.ts))
            => LET ema == Val(state'[s].ema_long)
                   new == Some([high |-> call'.h, low |-> call'.l])
               IN  IF state[s].signal_long = None
                   THEN /\ state'[s].signal_long =
                             IF call'.h * Den < ema /\ call'.l * Den < ema
                             THEN new ELSE None
                        /\ WellFormed(call'.h, call'.l, call'.c)
                             => (state'[s].signal_long = new
                                 <=> (call'.h * Den < ema /\ call'.c * Den < ema))
                   ELSE call'.c <= Val(state[s].signal_long).high
                            => state'[s].signal_long =
                                 IF call'.h * Den < ema THEN new ELSE None]_vars

(* a pending long signal candle was replaced by a later candle lying       *)
(* below the EMA that did not close above the pending high                 *)
C11_Witness ==
    /\ call.op = "update_candle" /\ call.tf = 15 /\ call.at = "long_roll"
    /\ Cur.signal_long = Some([high |-> call.h, low |-> call.l])
    /\ call.h * Den < Val(Cur.ema_long)
    /\ Flat(Cur) /\ ret = None

(* C12: flat, quota left, a signal candle pending: a candle that triggers  *)
(* (fast: close < pending low; slow: close > pending high) with a risk     *)
(* (short: pending high - close; long: close - pending low) of zero or     *)
(* less clears the pending signal candle of that side and returns None;    *)
(* no position is opened, no trade is counted and no trade id is used.     *)
C12_DegenerateSignal ==
    [][\A s \in Symbols :
        (/\ Updated(s)
         /\ Flat(state[s]) /\ QuotaLeft(state[s], call'.ts)
         /\ \/ /\ call'.tf = 5 /\ state[s].signal_short # None
               /\ call'.c < Val(state[s].signal_short).low
               /\ Val(state[s].signal_short).high - call'.c <= 0
            \/ /\ call'.tf = 15 /\ state[s].signal_long # None
               /\ call'.c > Val(state[s].signal_long).high
               /\ call'.c - Val(state[s].signal_long).low <= 0)
            => /\ ret' = None
               /\ Flat(state'[s])
               /\ IF call'.tf = 5 THEN state'[s].signal_short = None
                                  ELSE state'[s].signal_long = None
               /\ state'[s].trades_today = TradesBefore(state[s], call'.ts)
               /\ state'[s].next_trade_id = state[s].next_trade_id]_vars

(* a fast candle closed below the pending low but not below the pending    *)
(* high, and the pending short signal candle was dropped without a trade   *)
C12_Witness ==
    /\ call.op = "update_candle" /\ call.tf = 5
    /\ call.at = "short_degenerate"
    /\ Cur.signal_short = None /\ Flat(Cur) /\ ret = None

(* ema = alpha * close + (1 - alpha) * prev with alpha = 2/(ema_period+1), *)
(* in units of 1/Den and cleared of the denominator ema_period + 1         *)
IsEmaOf(ema, prev, c) ==
    IF prev = None THEN ema = Some(c * Den)
    ELSE /\ ema # None
         /\ (EmaPeriod + 1) * Val(ema) = 2 * c * Den + (EmaPeriod - 1) * Val(prev)

(* C13: every fast candle makes the short EMA, and every slow candle the   *)
(* long EMA, the candle's close if the side had no EMA and                 *)
(* alpha * close + (1 - alpha) * previous EMA otherwise, also while a      *)
(* position is open or the daily quota is used up; and the comparison that *)
(* creates a signal candle in the same call is made with the updated EMA.  *)
C13_EmaUpdate ==
    [][\A s \in Symbols :
        Updated(s) =>
          /\ call'.tf = 5
               => IsEmaOf(state'[s].ema_short, state[s].ema_short, call'.c)
          /\ call'.tf = 15
               => IsEmaOf(state'[s].ema_long, state[s].ema_long, call'.c)
          /\ (Flat(state[s]) /\ QuotaLeft(state[s], call'.ts))
               => /\ (call'.tf = 5 /\ state[s].signal_short = None)
                       => (state'[s].signal_short # None
                           <=> /\ call'.h * Den > Val(state'[s].ema_short)
                               /\ call'.l * Den > Val(state'[s].ema_short))
                  /\ (call'.tf = 15 /\ state[s].signal_long = None)
                       => (state'[s].signal_long # None
                           <=> /\ call'.h * Den < Val(state'[s].ema_long)
                               /\ call'.l * Den < Val(state'[s].ema_long))]_vars

(* a fast candle fed while a position was open moved the short EMA to a    *)
(* value that is not the candle's close                                    *)
C13_Witness ==
    /\ call.op = "update_candle" /\ call.tf = 5 /\ call.at = "in_position"
    /\ ~Flat(Cur) /\ Cur.ema_short # None
    /\ Val(Cur.ema_short) # call.c * Den

OpensOnly(st, st1, side) ==
    st1.position # st.position
        => st1.position # None /\ Val(st1.position).side = side

(* C14: a fast candle leaves the long EMA and the pending long signal      *)
(* candle as they are and opens no long position; a slow candle leaves the *)
(* short EMA and the pending short signal candle as they are and opens no  *)
(* short position; a call with any other timeframe returns None and leaves *)
(* both EMAs, both pending signal candles and the position as they are.    *)
C14_SideIsolation ==
    [][\A s \in Symbols :
        Updated(s) =>
          /\ call'.tf = 5
               => /\ state'[s].ema_long = state[s].ema_long
                  /\ state'[s].signal_long = state[s].signal_long
                  /\ OpensOnly(state[s], state'[s], "short")
          /\ call'.tf = 15
               => /\ state'[s].ema_short = state[s].ema_short
                  /\ state'[s].signal_short = state[s].signal_short
                  /\ OpensOnly(state[s], state'[s], "long")
          /\ call'.tf \notin {5, 15}
               => /\ ret' = None
                  /\ state'[s].ema_short = state[s].ema_short
                  /\ state'[s].ema_long = state[s].ema_long
                  /\ state'[s].signal_short = state[s].signal_short
                  /\ state'[s].signal_long = state[s].signal_long
                  /\ state'[s].position = state[s].position]_vars

(* a fast candle opened a short position while a long signal candle was    *)
(* pending, and the long signal candle is still pending                    *)
C14_Witness ==
    /\ call.op = "update_candle" /\ call.tf = 5 /\ call.at = "short_entry"
    /\ ~Flat(Cur) /\ Val(Cur.position).side = "short"
    /\ Cur.signal_long # None /\ Cur.ema_long # None

IsEntry(r) == r # None /\ Val(r).signal \in {"short_entry", "long_entry"}

(* C15: the first trade id of an instrument is 1; an update_candle call    *)
(* that returns an entry signal gives it the instrument's next trade id,   *)
(* stores the same id in the opened position and moves the next trade id   *)
(* up by one; no other step (a call without entry, force_flat, a day       *)
(* rollover, a call for another instrument) changes the next trade id; an  *)
(* open position carries the last id given out, and an exit signal carries *)
(* the id of the open position.                                            *)
C15_TradeIds ==
    /\ \A s \in Symbols : state[s].next_trade_id = 1
    /\ [][\A s \in Symbols :
            /\ IF Updated(s) /\ IsEntry(ret')
               THEN /\ Val(ret').trade_id = state[s].next_trade_id
                    /\ state'[s].next_trade_id = state[s].next_trade_id + 1
                    /\ Flat(state[s]) /\ ~Flat(state'[s])
               ELSE /\ state'[s].next_trade_id = state[s].next_trade_id
                    /\ Flat(state[s]) => Flat(state'[s])
            /\ ~Flat(state'[s])
                 => Val(state'[s].position).trade_id
                        = state'[s].next_trade_id - 1
            /\ (call'.op = "exit_signal" /\ call'.symbol = s /\ ret' # None)
                 => /\ ~Flat(state[s])
                    /\ Val(ret').trade_id = Val(state[s].position).trade_id]_vars

(* the second entry of an instrument was returned with trade id 2 on a     *)
(* day on which it is the first trade, after force_flat closed the first   *)
C15_Witness ==
    /\ call.op = "update_candle" /\ IsEntry(ret)
    /\ Val(ret).trade_id = 2 /\ Cur.next_trade_id = 3
    /\ Cur.trades_today = 1
    /\ ~Flat(Cur) /\ Val(Cur.position).trade_id = 2

Qty(lg, s) == Get(lg.positions, s, 0)

(* C17: in every state of a ledger reached by buy_market and sell_market   *)
(* calls, accepted or rejected, an instrument has an avg_price entry       *)
(* exactly when its position quantity is not zero.                         *)
C17_AveragePriceInvariant ==
    \A s \in Symbols : ledger.avg_price[s] # None <=> Qty(ledger, s) # 0

(* an order brought a position back to exactly zero: the instrument still  *)
(* has a positions entry, of quantity 0, and no avg_price entry            *)
C17_Witness ==
    /\ call.op \in {"buy_market", "sell_market"}
    /\ call.at \in {"buy_cover", "sell_cover"}
    /\ ledger.positions[call.symbol] = Some(0)
    /\ ledger.avg_price[call.symbol] = None
    /\ Len(ledger.trade_log) = 2

IsOrder(c) == c.op \in {"buy_market", "sell_market"}
Accepted(c, r) == IsOrder(c) /\ Val(r).accepted

(* C18: an accepted buy_market of quantity q filled at f changes the cash  *)
(* by exactly -q*f and an accepted sell_market by exactly +q*f, whatever   *)
(* the position before it (q is the quantity traded, which the log entry   *)
(* records: the quantity passed, or its magnitude for a sell); a rejected  *)
(* order, record_realized_trade_pnl and mark_to_market leave the cash as   *)
(* it is.                                                                  *)
C18_CashConservation ==
    [][IF Accepted(call', ret')
       THEN LET f == Val(ret').price
                q == Abs(call'.qty)
            IN  /\ call'.qty > 0 => q = call'.qty
                /\ ledger'.trade_log[Len(ledger'.trade_log)].qty = q
                /\ ledger'.trade_log[Len(ledger'.trade_log)].price = f
                /\ ledger'.cash =
                     IF call'.op = "buy_market"
                     THEN RSub(ledger.cash, RMul(RInt(q), f))
                     ELSE RAdd(ledger.cash, RMul(RInt(q), f))
       ELSE ledger'.cash = ledger.cash]_vars

(* a buy larger than the short position it met turned it into a long one,  *)
(* was filled at a price other than the reference price, and was paid for  *)
C18_Witness ==
    /\ call.op = "buy_market" /\ call.at = "buy_flip"
    /\ Val(ret).accepted /\ Val(ret).price # RInt(call.price)
    /\ Qty(ledger, call.symbol) > 0
    /\ RLess(ledger.cash, RInt(StartingCash))

(* the fill price of a buy on a ledger whose slippage is not negative      *)
BuyFill(lg, price) == RMul(RInt(price), RAdd(RInt(1), lg.slippage))

(* C19: a buy_market call with qty <= 0, or whose cost qty * fill price is *)
(* more than the cash, returns accepted = False and leaves cash,           *)
(* positions, avg_price, realized_pnl and trade_log as they were; a buy    *)
(* of a positive quantity whose cost equals the cash is accepted.          *)
C19_BuyRejection ==
    [][call'.op = "buy_market"
        => LET cost == RMul(RInt(call'.qty), BuyFill(ledger, call'.price))
           IN  /\ (call'.qty <= 0 \/ RLess(ledger.cash, cost))
                    => /\ ~Val(ret').accepted
                       /\ ledger' = ledger
               /\ (call'.qty > 0 /\ cost = ledger.cash)
                    => /\ Val(ret').accepted
                       /\ ledger'.cash = RInt(0)]_vars

(* a buy that the cash would cover at the reference price was refused      *)
(* because its cost at the fill price is more than the cash                *)
C19_Witness ==
    /\ call.op = "buy_market" /\ call.at = "buy_no_cash"
    /\ ~Val(ret).accepted
    /\ ~RLess(ledger.cash, RInt(call.qty * call.price))
    /\ RLess(ledger.cash, RMul(RInt(call.qty), Val(ret).price))

(* C20: a sell_market call with a quantity of zero or less returns         *)
(* accepted = False and leaves cash, positions, avg_price and trade_log as *)
(* they were.                                                              *)
C20_SellRejection ==
    [][(call'.op = "sell_market" /\ call'.qty <= 0)
        => /\ ~Val(ret').accepted
           /\ ledger'.cash = ledger.cash
           /\ ledger'.positions = ledger.positions
           /\ ledger'.avg_price = ledger.avg_price
           /\ ledger'.trade_log = ledger.trade_log]_vars

(* C21: an accepted buy_market of quantity q filled at f on a previous     *)
(* quantity p with previous average a: if p >= 0 the quantity becomes p+q  *)
(* and the average (p*a + q*f)/(p+q), which is f when p = 0; if p < 0 and  *)
(* q < |p| the quantity becomes p+q and the average stays a; if p < 0 and  *)
(* q = |p| the quantity becomes 0 and the average is removed; if p < 0 and *)
(* q > |p| the quantity becomes q+p and the average f.                     *)
C21_BuyAccounting ==
    [][\A s \in Symbols :
        (call'.op = "buy_market" /\ call'.symbol = s /\ Val(ret').accepted)
          => LET p == Qty(ledger, s)
                 a == ledger.avg_price[s]
                 q == call'.qty
                 f == Val(ret').price
                 avg == ledger'.avg_price[s]
             IN  /\ ledger'.positions[s] = Some(p + q)
                 /\ p = 0 => avg = Some(f)
                 /\ p > 0 => /\ avg # None
                             /\ RMul(Val(avg), RInt(p + q))
                                  = RAdd(RMul(RInt(p), Val(a)), RMul(RInt(q), f))
                 /\ (p < 0 /\ q < 0 - p) => avg = a
                 /\ (p < 0 /\ q = 0 - p) => avg = None
                 /\ (p < 0 /\ q > 0 - p) => avg = Some(f)]_vars

(* a buy added to a long position bought at another price: the average is  *)
(* neither the old one nor the fill price, and is not a whole number       *)
C21_Witness ==
    /\ call.op = "buy_market" /\ call.at = "buy_add" /\ Val(ret).accepted
    /\ Qty(ledger, call.symbol) > call.qty
    /\ Val(ledger.avg_price[call.symbol]) # Val(ret).price
    /\ Val(ledger.avg_price[call.symbol]).d > 1

(* the ledger with every position quantity negated                         *)
Mirror(lg) ==
    [lg EXCEPT !.positions =
        [s \in Symbols |-> IF lg.positions[s] = None THEN None
                           ELSE Some(0 - Val(lg.positions[s]))]]

(* C22: an accepted sell_market of quantity q filled at f on a previous    *)
(* quantity p with previous average a: if p <= 0 the quantity becomes p-q  *)
(* and the average (|p|*a + q*f)/|p-q|; if p > 0 and q < p the quantity    *)
(* becomes p-q and the average stays a; if q = p the quantity becomes 0    *)
(* and the average is removed; if q > p the quantity becomes p-q and the   *)
(* average f (q is the quantity sold, the magnitude of the argument).      *)
(* And where the fill prices agree (no slippage) and the cash covers the   *)
(* buy, the buy of q on the mirrored ledger gives the mirrored quantity    *)
(* and the same average.                                                   *)
C22_SellMirror ==
    [][\A s \in Symbols :
        (call'.op = "sell_market" /\ call'.symbol = s /\ Val(ret').accepted)
          => LET p == Qty(ledger, s)
                 a == ledger.avg_price[s]
                 q == Abs(call'.qty)
                 f == Val(ret').price
                 avg == ledger'.avg_price[s]
                 buy == BuyMarket(Mirror(ledger), s, q, RInt(call'.price))
             IN  /\ ledger'.positions[s] = Some(p - q)
                 /\ p = 0 => avg = Some(f)
                 /\ p < 0 => /\ avg # None
                             /\ RMul(Val(avg), RInt(q - p))
                                  = RAdd(RMul(RInt(0 - p), Val(a)),
                                         RMul(RInt(q), f))
                 /\ (p > 0 /\ q < p) => avg = a
                 /\ (p > 0 /\ q = p) => avg = None
                 /\ (p > 0 /\ q > p) => avg = Some(f)
                 /\ (ledger.slippage = RInt(0) /\ Val(buy.ret).accepted)
                      => /\ buy.lg.positions[s] = Some(q - p)
                         /\ buy.lg.avg_price[s] = avg]_vars

(* a sell added to a short position sold at another price, and the         *)
(* average is not a whole number                                           *)
C22_Witness ==
    /\ call.op = "sell_market" /\ call.at = "sell_add" /\ Val(ret).accepted
    /\ Qty(ledger, call.symbol) < 0 - Abs(call.qty)
    /\ Val(ledger.avg_price[call.symbol]) # Val(ret).price
    /\ Val(ledger.avg_price[call.symbol]).d > 1

(* reference price * (1 + slippage) for a buy, * (1 - slippage) for a sell *)
Slipped(lg, op, price) ==
    IF op = "buy_market" THEN RMul(RInt(price), RAdd(RInt(1), lg.slippage))
    ELSE RMul(RInt(price), RSub(RInt(1), lg.slippage))

(* the fill price is the one of the cash change, of the log entry and of   *)
(* the average of a position opened from flat                              *)
FillUsed(lg, lg1, c, f) ==
    LET q == Abs(c.qty) IN
    /\ lg1.cash = IF c.op = "buy_market"
                  THEN RSub(lg.cash, RMul(RInt(q), f))
                  ELSE RAdd(lg.cash, RMul(RInt(q), f))
    /\ lg1.trade_log[Len(lg1.trade_log)].price = f
    /\ Qty(lg, c.symbol) = 0 => lg1.avg_price[c.symbol] = Some(f)

(* C23 as stated: whatever the slippage of the ledger, an accepted buy is  *)
(* filled at reference price * (1 + slippage) and an accepted sell at      *)
(* reference price * (1 - slippage), and the cash change, the average      *)
(* price and the log entry use this fill price.                            *)
C23_SlippageAnyValue ==
    [][Accepted(call', ret')
        => /\ Val(ret').price = Slipped(ledger, call'.op, call'.price)
           /\ FillUsed(ledger, ledger', call',
                       Slipped(ledger, call'.op, call'.price))]_vars

(* C23: the same for a slippage that is not negative; on a ledger          *)
(* constructed with a negative slippage the fill price is the reference    *)
(* price.                                                                  *)
C23_Slippage ==
    [][Accepted(call', ret')
        => LET f == IF RLess(ledger.slippage, RInt(0))
                    THEN RInt(call'.price)
                    ELSE Slipped(ledger, call'.op, call'.price)
           IN  /\ Val(ret').price = f
               /\ FillUsed(ledger, ledger', call', f)]_vars

(* a sell from flat on a ledger with a positive slippage was filled below  *)
(* the reference price, and the short position is priced at the fill       *)
C23_Witness ==
    /\ call.op = "sell_market" /\ Val(ret).accepted
    /\ RLess(RInt(0), ledger.slippage)
    /\ RLess(Val(ret).price, RInt(call.price))
    /\ Len(ledger.trade_log) = 1
    /\ ledger.avg_price[call.symbol] = Some(Val(ret).price)

(* C24: record_realized_trade_pnl returns (exit - entry) * qty for side    *)
(* long and (entry - exit) * qty for side short, adds exactly that value   *)
(* to the realized P&L of the instrument (which starts without an entry,   *)
(* read as 0), and leaves the realized P&L of the other instruments, the   *)
(* cash, the positions, the average prices and the trade log as they are.  *)
C24_RealizedPnl ==
    [][\A s \in Symbols :
        (call'.op = "record_realized_trade_pnl" /\ call'.symbol = s)
          => LET pnl == IF call'.side = "long"
                        THEN (call'.exit - call'.entry) * call'.qty
                        ELSE (call'.entry - call'.exit) * call'.qty
                 before == IF ledger.realized_pnl[s] = None THEN RInt(0)
                           ELSE Val(ledger.realized_pnl[s])
             IN  /\ ret' = Some(RInt(pnl))
                 /\ ledger'.realized_pnl[s] = Some(RAdd(before, RInt(pnl)))
                 /\ \A t \in Symbols \ {s} :
                        ledger'.realized_pnl[t] = ledger.realized_pnl[t]
                 /\ ledger'.cash = ledger.cash
                 /\ ledger'.positions = ledger.positions
                 /\ ledger'.avg_price = ledger.avg_price
                 /\ ledger'.trade_log = ledger.trade_log]_vars

(* the loss of a short trade of two units was added to an earlier result   *)
(* while orders had been booked                                            *)
C24_Witness ==
    /\ call.op = "record_realized_trade_pnl"
    /\ call.side = "short" /\ call.qty = 2
    /\ RLess(Val(ret), RInt(0))
    /\ Val(ledger.realized_pnl[call.symbol]) # Val(ret)
    /\ Len(ledger.trade_log) > 0 /\ Qty(ledger, call.symbol) # 0

(* (price - avg) * q for a long, (avg - price) * |q| for a short, 0 for an *)
(* instrument without a price or with a quantity of zero                   *)
OpenPnl(lg, prices, s) ==
    LET q == Qty(lg, s) IN
    IF q = 0 \/ prices[s] = None THEN RInt(0)
    ELSE IF q > 0
         THEN RMul(RSub(Val(prices[s]), Val(lg.avg_price[s])), RInt(q))
         ELSE RMul(RSub(Val(lg.avg_price[s]), Val(prices[s])), RInt(0 - q))

(* C25: mark_to_market returns the cash plus, for every instrument with a  *)
(* quantity q other than zero and a price in the map, (price - avg) * q    *)
(* for a long and (avg - price) * |q| for a short; an instrument without   *)
(* a price or with quantity zero adds nothing.                             *)
C25_MarkToMarket ==
    [][call'.op = "mark_to_market"
        => ret' = Some(RAdd(ledger.cash,
                            RAdd(OpenPnl(ledger, call'.prices, "A"),
                                 OpenPnl(ledger, call'.prices, "B"))))]_vars

(* the equity of a ledger holding a long and a short position, both        *)
(* priced, differs from its cash                                           *)
C25_Witness ==
    /\ call.op = "mark_to_market" /\ ret # Some(ledger.cash)
    /\ \A s \in Symbols : call.prices[s] # None
    /\ \E s, t \in Symbols : Qty(ledger, s) > 0 /\ Qty(ledger, t) < 0

(* C26: mark_to_market changes no field of the ledger; and a call returns  *)
(* what the call just before it returned for the same price map.          *)
C26_MarkToMarketPure ==
    [][/\ call'.op = "mark_to_market" => ledger' = ledger
       /\ (call.op = "mark_to_market" /\ call'.op = "mark_to_market"
           /\ call'.prices = call.prices)
            => ret' = ret]_vars

(* the equity of a ledger holding a priced position was computed and the   *)
(* ledger is as the last order left it                                     *)
C26_Witness ==
    /\ call.op = "mark_to_market" /\ ret # Some(ledger.cash)
    /\ Len(ledger.trade_log) = 2
    /\ \E s \in Symbols : Qty(ledger, s) # 0 /\ call.prices[s] # None

SideOf(op) == IF op = "buy_market" THEN "BUY" ELSE "SELL"

(* C27: an accepted buy_market or sell_market appends exactly one entry    *)
(* (instrument, BUY or SELL, quantity traded, fill price returned) at the  *)
(* end of trade_log and leaves the entries before it as they were; a       *)
(* rejected order, record_realized_trade_pnl and mark_to_market leave the  *)
(* log as it was.                                                          *)
C27_TradeLogAppendOnly ==
    [][IF Accepted(call', ret')
       THEN ledger'.trade_log
              = Append(ledger.trade_log,
                       [symbol |-> call'.symbol, side |-> SideOf(call'.op),
                        qty |-> Abs(call'.qty), price |-> Val(ret').price])
       ELSE ledger'.trade_log = ledger.trade_log]_vars

(* a sell was accepted after a buy and after calls that are not orders;    *)
(* the log holds the two in the order they were executed                   *)
C27_Witness ==
    /\ call.op = "sell_market" /\ Val(ret).accepted
    /\ Len(ledger.trade_log) = 2
    /\ ledger.trade_log[1].side = "BUY" /\ ledger.trade_log[2].side = "SELL"
    /\ ledger.trade_log[1].symbol # ledger.trade_log[2].symbol
    /\ ledger.realized_pnl["A"] # None

(* C28: update_candle, exit_signal and force_flat called for one           *)
(* instrument leave the state record (EMAs, pending signal candles,        *)
(* position, daily counter, next trade id) of every other instrument of    *)
(* the engine as it was, under any interleaving of the calls.              *)
C28_InstrumentIndependence ==
    [][\A s \in Symbols : s # call'.symbol => state'[s] = state[s]]_vars

(* one instrument was flattened out of a position while the other holds   *)
(* a position of its own                                                   *)
C28_Witness ==
    /\ call.op = "force_flat" /\ call.at \in {"closed", "closed_pending"}
    /\ \E s \in Symbols \ {call.symbol} :
          /\ InPosition(state[s])
          /\ state[s].next_trade_id > 1
          /\ state[s] # state[call.symbol]

(* the bucket of the instrument that began last                            *)
LastBucket(cb, s) ==
    LET keys == {k \in DOMAIN cb.current : k[1] = s}
    IN  IF keys = {} THEN None
        ELSE Some(cb.current[CHOOSE k \in keys :
                                 \A j \in keys : j[2] <= k[2]])

(* C29: for ticks of one instrument in non-decreasing timestamp order,     *)
(* the first tick at or after the end of the bucket the builder is         *)
(* filling makes update return that bucket's (open, high, low, close).     *)
C29_CandleCompleted ==
    [][call'.op = "update"
        => LET cb == builder[call'.tf]
               last == LastBucket(cb, call'.symbol)
           IN  (last # None /\ call'.ts >= Val(last).start + cb.tf_seconds)
                 => ret' = Some(<<Val(last).o, Val(last).h, Val(last).l,
                                  Val(last).c>>)]_vars

(* C30: an event of the loop flattens the engine's position of an          *)
(* instrument only when the ledger order of the exit was accepted (the     *)
(* trade log grew by the exit); when the order is rejected the position    *)
(* stays open.                                                             *)
C30_TwoPhaseExit ==
    [][(call'.op = "event" /\ InPosition(state[call'.symbol])
          /\ ~InPosition(state'[call'.symbol]))
        => Len(ledger'.trade_log) = Len(ledger.trade_log) + 1]_vars

(* the buckets the builders hold for an instrument                         *)
BucketsOf(bld, s) ==
    [tf \in Timeframes |->
        {<<k, bld[tf].current[k]>> :
            k \in {j \in DOMAIN bld[tf].current : j[1] = s}}]

LedgerOf(lg, s) ==
    <<lg.positions[s], lg.avg_price[s], lg.realized_pnl[s],
      SelectSeq(lg.trade_log, LAMBDA e : e.symbol = s)>>

(* the builders took the tick: the bucket of its time closes at its price  *)
TickTaken(bld, s, tick) ==
    \A tf \in Timeframes :
        LET key == <<s, CandleStart(bld[tf], tick.time)>>
        IN  key \in DOMAIN bld[tf].current
              /\ bld[tf].current[key].c = tick.price

(* C31: in a polling cycle of the live loop, an instrument whose get_price *)
(* raised keeps its engine state, its part of the ledger, its buckets in   *)
(* both candle builders and its last price; the cycle goes on, and every   *)
(* other instrument of the cycle whose price was read is processed.        *)
C31_TickFailureIsolation ==
    [][call'.op = "cycle"
        => \A s \in Symbols :
              IF call'.ticks[s] = None
              THEN /\ state'[s] = state[s]
                   /\ LedgerOf(ledger', s) = LedgerOf(ledger, s)
                   /\ BucketsOf(builder', s) = BucketsOf(builder, s)
                   /\ ltp'[s] = ltp[s]
              ELSE /\ ltp'[s] = Some(RInt(Val(call'.ticks[s]).price))
                   /\ TickTaken(builder', s, Val(call'.ticks[s]))]_vars

(* the price of the first instrument of a cycle could not be read, the     *)
(* one after it was processed; both had buckets from earlier cycles        *)
C31_Witness ==
    /\ call.op = "cycle"
    /\ call.ticks[SymbolOrder[1]] = None /\ call.ticks[SymbolOrder[2]] # None
    /\ call.at[1] = "price_error" /\ call.at[2] # "price_error"
    /\ ltp[SymbolOrder[1]] # None
    /\ \A s \in Symbols : BucketsOf(builder, s)[5] # {}
    /\ Cardinality(BucketsOf(builder, SymbolOrder[2])[5]) = 2

WellFormed5(k) == k.l <= k.o /\ k.o <= k.h /\ k.l <= k.c /\ k.c <= k.h

(* C32: build_15m_from_5m emits one candle per complete run of three input *)
(* candles, in input order: open of the first, highest high, lowest low,   *)
(* close and timestamp of the third; a trailing run of one or two candles  *)
(* emits nothing, so n inputs give n div 3 outputs; and the outputs are    *)
(* well-formed whenever the inputs are.                                    *)
C32_Build15 ==
    call.op = "build_15m_from_5m"
      => LET in == call.candles
             out == Val(ret)
         IN  /\ Len(out) = Len(in) \div 3
             /\ \A k \in 1..Len(out) :
                   LET a == in[3 * k - 2]
                       b == in[3 * k - 1]
                       c == in[3 * k]
                   IN  /\ out[k].dt = c.dt /\ out[k].o = a.o /\ out[k].c = c.c
                       /\ out[k].h \in {a.h, b.h, c.h}
                       /\ \A x \in {a.h, b.h, c.h} : x <= out[k].h
                       /\ out[k].l \in {a.l, b.l, c.l}
                       /\ \A x \in {a.l, b.l, c.l} : out[k].l <= x
             /\ (\A i \in 1..Len(in) : WellFormed5(in[i]))
                  => \A k \in 1..Len(out) : WellFormed5(out[k])

(* two runs of well-formed candles were aggregated, the first with its    *)
(* highest high and the second with its lowest low in the middle candle    *)
C32_Witness ==
    /\ call.op = "build_15m_from_5m" /\ Len(call.candles) = 6
    /\ Len(Val(ret)) = 2
    /\ call.candles[2].h > call.candles[1].h
    /\ call.candles[2].h > call.candles[3].h
    /\ call.candles[5].l < call.candles[4].l
    /\ call.candles[5].l < call.candles[6].l
    /\ \A i \in 1..6 : WellFormed5(call.candles[i])

Ordered(pos) ==
    IF pos.side = "short" THEN pos.tp < pos.entry /\ pos.entry < pos.sl
    ELSE pos.sl < pos.entry /\ pos.entry < pos.tp

StopHit(price, pos) ==
    IF pos.side = "short" THEN price >= pos.sl ELSE price <= pos.sl

TargetHit(price, pos) ==
    IF pos.side = "short" THEN price <= pos.tp ELSE price >= pos.tp

(* C33: when every candle fed has low <= high, every position the engine   *)
(* holds has tp < entry < sl when short and sl < entry < tp when long; no   *)
(* price meets both the stop and the target condition, and exit_signal at  *)
(* the entry price returns None.                                           *)
C33_BracketOrdering ==
    \A s \in Symbols :
        InPosition(state[s])
          => LET pos == Val(state[s].position) IN
             /\ Ordered(pos)
             /\ \A price \in ExitPrices \cup Prices \cup {pos.sl, pos.tp} :
                   ~(StopHit(price, pos) /\ TargetHit(price, pos))
             /\ ExitSignal(state[s], s, pos.entry) = None

(* exit_signal was called at the entry price of the position held, which   *)
(* was opened by a close outside its signal candle's range                 *)
C33_Witness ==
    /\ call.op = "exit_signal" /\ InPosition(Cur)
    /\ call.price = Val(Cur.position).entry
    /\ ret = None

(* C34: when every candle fed has low <= high, a close below the pending   *)
(* low (short) or above the pending high (long) in a flat state with       *)
(* quota left opens a position whose risk is strictly positive, and the    *)
(* branch that discards a signal candle for a risk <= 0 is never taken.    *)
C34_RiskPositive ==
    [][\A s \in Symbols :
        Updated(s)
          => /\ call'.at \notin {"short_degenerate", "long_degenerate"}
             /\ (/\ call'.tf = 5
                 /\ Flat(state[s]) /\ QuotaLeft(state[s], call'.ts)
                 /\ state[s].signal_short # None
                 /\ call'.c < Val(state[s].signal_short).low)
                  => /\ ret' # None /\ Val(ret').signal = "short_entry"
                     /\ InPosition(state'[s])
                     /\ Val(ret').sl - Val(ret').entry > 0
             /\ (/\ call'.tf = 15
                 /\ Flat(state[s]) /\ QuotaLeft(state[s], call'.ts)
                 /\ state[s].signal_long # None
                 /\ call'.c > Val(state[s].signal_long).high)
                  => /\ ret' # None /\ Val(ret').signal = "long_entry"
                     /\ InPosition(state'[s])
                     /\ Val(ret').entry - Val(ret').sl > 0]_vars

(* a long was opened by a close above a pending candle with low = high,    *)
(* on a candle whose close is above its own high                           *)
C34_Witness ==
    /\ call.op = "update_candle" /\ call.at = "long_entry"
    /\ Val(ret).sl = Val(ret).entry - 1
    /\ call.c > call.h

(* C35: on well-formed candles, the call that seeds a side's EMA leaves    *)
(* that side without a pending signal candle; a call returns an entry of   *)
(* a side only if that side's signal candle was pending before the call;   *)
(* and force_flat leaves both sides without one, so the first candle       *)
(* after it returns no entry.                                              *)
C35_SeedAndTwoCandles ==
    [][\A s \in Symbols :
        /\ Updated(s)
             => /\ (call'.tf = 5 /\ state[s].ema_short = None)
                      => state'[s].signal_short = None /\ ret' = None
                /\ (call'.tf = 15 /\ state[s].ema_long = None)
                      => state'[s].signal_long = None /\ ret' = None
                /\ (state[s].signal_short = None /\ state'[s].signal_short # None)
                      => ret' = None
                /\ (state[s].signal_long = None /\ state'[s].signal_long # None)
                      => ret' = None
                /\ (ret' # None /\ Val(ret').signal = "short_entry")
                      => state[s].signal_short # None
                /\ (ret' # None /\ Val(ret').signal = "long_entry")
                      => state[s].signal_long # None
        /\ (call'.op = "force_flat" /\ call'.symbol = s)
             => state'[s].signal_short = None /\ state'[s].signal_long = None]_vars

(* the first fast candle of a flat instrument: its close seeds the EMA,   *)
(* its high is above the close, and no signal candle is pending           *)
C35_Witness ==
    /\ call.op = "update_candle" /\ call.tf = 5
    /\ Cur.ema_short = Some(call.c * Den) /\ Cur.ema_long = None
    /\ call.h > call.c /\ call.l = call.c
    /\ Cur.next_trade_id = 1 /\ Cur.signal_short = None

Fast(s) ==
    UpdateCandle(state[s], s, call'.h, call'.l, call'.c, call'.ts, 5)

Slow(s) == Feed15(Fast(s).st, s, call'.c15, call'.ts)

Held(s) == Val(Slow(s).st.position)

(* C36: in one event of the backtest loop the fast candle is fed first and *)
(* the slow candle second; the two calls never both return an entry, the   *)
(* slow call returns None when the fast call opened a short, and the       *)
(* signal the loop acts on carries the side and trade_id of the position   *)
(* the engine holds, so the loop never skips it as a mismatch.             *)
C36_OneEntryPerEvent ==
    [][\A s \in Symbols :
        (call'.op = "event" /\ call'.symbol = s)
          => /\ ~(Fast(s).ret # None /\ Slow(s).ret # None)
             /\ Fast(s).ret # None
                  => /\ Val(Fast(s).ret).signal = "short_entry"
                     /\ Slow(s).ret = None
                     /\ Slow(s).st.position = Fast(s).st.position
             /\ SignalOr(Slow(s).ret, Fast(s).ret) # None
                  => /\ Slow(s).st.position # None
                     /\ Held(s).trade_id
                          = Val(SignalOr(Slow(s).ret, Fast(s).ret)).trade_id
                     /\ Held(s).side
                          = (IF Val(SignalOr(Slow(s).ret, Fast(s).ret)).signal
                                  = "long_entry" THEN "long" ELSE "short")
             /\ call'.at # "continue"]_vars

(* the fast call opened a short at a timestamp that also had a slow       *)
(* candle, and the loop executed the entry                                 *)
C36_Witness ==
    /\ call.op = "event" /\ call.c15 # None
    /\ call.at = "entry_executed"
    /\ InPosition(Cur) /\ Val(Cur.position).side = "short"

Blocked(st, ts) == InPosition(st) \/ ~QuotaLeft(st, ts)

(* C37: an update_candle call for an instrument that is in a position, or  *)
(* flat with the day's quota used up, returns None and leaves both pending *)
(* signal candles, the position and next_trade_id as they were; it changes *)
(* the EMA of the candle's timeframe only, and the day marker and daily    *)
(* counter only when the candle starts a new day.  While a position is     *)
(* open, no call but force_flat changes a pending signal candle.           *)
C37_BlockedFrame ==
    [][\A s \in Symbols :
        /\ (Updated(s) /\ Blocked(state[s], call'.ts))
             => /\ ret' = None
                /\ state'[s].signal_short = state[s].signal_short
                /\ state'[s].signal_long = state[s].signal_long
                /\ state'[s].position = state[s].position
                /\ state'[s].next_trade_id = state[s].next_trade_id
                /\ call'.tf # 5 => state'[s].ema_short = state[s].ema_short
                /\ call'.tf # 15 => state'[s].ema_long = state[s].ema_long
                /\ call'.tf = 5
                     => state'[s].ema_short = EmaNext(state[s].ema_short, call'.c)
                /\ call'.tf = 15
                     => state'[s].ema_long = EmaNext(state[s].ema_long, call'.c)
                /\ IF state[s].current_day = Some(DayOf(call'.ts))
                   THEN /\ state'[s].current_day = state[s].current_day
                        /\ state'[s].trades_today = state[s].trades_today
                   ELSE /\ state'[s].current_day = Some(DayOf(call'.ts))
                        /\ state'[s].trades_today = 0
        /\ (InPosition(state[s]) /\ ~(call'.op = "force_flat" /\ call'.symbol = s))
             => /\ state'[s].signal_short = state[s].signal_short
                /\ state'[s].signal_long = state[s].signal_long
                /\ state'[s].position = state[s].position]_vars

(* a candle of a new day was fed while a short position was open and a     *)
(* long signal candle was pending                                          *)
C37_Witness ==
    /\ call.op = "update_candle" /\ call.at = "in_position"
    /\ Val(Cur.position).side = "short" /\ Cur.signal_long # None
    /\ Cur.trades_today = 0

(* C38: at the end of every event of the backtest loop, an instrument for  *)
(* which the engine holds a position has an open_trades record under that  *)
(* position's trade_id.                                                    *)
C38_EngineLoopSync ==
    \A s \in Symbols :
        (call.op = "event" /\ InPosition(state[s]))
          => <<s, Val(state[s].position).trade_id>> \in DOMAIN open_trades

(* C39: the cash of a ledger constructed with starting_cash >= 0 and a     *)
(* slippage in [0, 1) is never negative, after any sequence of buy_market  *)
(* and sell_market calls at positive reference prices.                     *)
C39_CashNeverNegative ==
    /\ ~RLess(ledger.cash, RInt(0))
    /\ ~RLess(ledger.starting_cash, RInt(0))
    /\ ~RLess(ledger.slippage, RInt(0)) /\ RLess(ledger.slippage, RInt(1))

(* an accepted buy that cost all the cash there was                        *)
C39_Witness ==
    /\ call.op = "buy_market" /\ call.qty > 0
    /\ ret # None /\ Val(ret).accepted
    /\ ~RLess(RInt(0), ledger.cash)

RoundTripQtys == {q \in OrderQtys : q > 0}

(* the ledger lg after the round trip rt, seen from the ledger before:     *)
(* same cash, instrument s at quantity 0 without avg_price entry, the      *)
(* other instruments and the realized P&L untouched, two more log entries  *)
Restored(lg, rt, s, first, second, q, p) ==
    /\ rt.cash = lg.cash
    /\ rt.positions[s] = Some(0) /\ Qty(rt, s) = Qty(lg, s)
    /\ rt.avg_price[s] = None /\ rt.avg_price = lg.avg_price
    /\ \A t \in Symbols \ {s} : rt.positions[t] = lg.positions[t]
    /\ rt.realized_pnl = lg.realized_pnl
    /\ rt.starting_cash = lg.starting_cash /\ rt.slippage = lg.slippage
    /\ rt.trade_log
         = lg.trade_log \o <<[symbol |-> s, side |-> first, qty |-> q,
                              price |-> RInt(p)],
                             [symbol |-> s, side |-> second, qty |-> q,
                              price |-> RInt(p)]>>

BuyThenSell(lg, s, q, p) ==
    SellMarket(BuyMarket(lg, s, q, RInt(p)).lg, s, q, RInt(p))

SellThenBuy(lg, s, q, p) ==
    BuyMarket(SellMarket(lg, s, q, RInt(p)).lg, s, q, RInt(p))

(* C40: on a ledger without slippage, from any state where an instrument   *)
(* is flat, an accepted buy_market of q at p followed by sell_market of q  *)
(* at p, or the sell followed by the buy, restores the cash, leaves the    *)
(* instrument at quantity 0 with no avg_price entry, and changes nothing   *)
(* else but the trade log, which is two entries longer.                    *)
C40_RoundTrip ==
    \A s \in Symbols, q \in RoundTripQtys, p \in RefPrices :
        (ledger.slippage = RInt(0) /\ Qty(ledger, s) = 0)
          => /\ Val(BuyMarket(ledger, s, q, RInt(p)).ret).accepted
                  => /\ Val(BuyThenSell(ledger, s, q, p).ret).accepted
                     /\ Restored(ledger, BuyThenSell(ledger, s, q, p).lg, s,
                                 "BUY", "SELL", q, p)
             /\ Val(SellMarket(ledger, s, q, RInt(p)).ret).accepted
             /\ Val(SellThenBuy(ledger, s, q, p).ret).accepted
             /\ Restored(ledger, SellThenBuy(ledger, s, q, p).lg, s,
                         "SELL", "BUY", q, p)

(* a buy of 2 and then a sell of 2 at the same price on a ledger without   *)
(* slippage: the cash is the starting cash again                           *)
C40_Witness ==
    /\ ledger.slippage = RInt(0)
    /\ call.op = "sell_market" /\ call.at = "sell_cover" /\ call.qty = 2
    /\ Len(ledger.trade_log) = 2
    /\ ledger.trade_log[1]
         = [symbol |-> call.symbol, side |-> "BUY", qty |-> 2,
            price |-> RInt(call.price)]
    /\ ledger.trade_log[2]
         = [symbol |-> call.symbol, side |-> "SELL", qty |-> 2,
            price |-> RInt(call.price)]
    /\ ledger.cash = ledger.starting_cash
    /\ ledger.positions[call.symbol] = Some(0)
    /\ ledger.avg_price[call.symbol] = None

====
